---- MODULE Spec2Model ----
(***************************************************************************)
(* matrix-wechat-agent: the session registry (manager.rs), the command     *)
(* dispatcher (manager/matrix.rs), the reply path (utils.rs                *)
(* retriable_write over the broadcast channel of main.rs) and the message  *)
(* send contract of a session (wechat.rs send_message).                    *)
(*                                                                         *)
(* Scheduling.  connect_ws runs inside the single task `ws`; its read loop *)
(* (reader.for_each_concurrent(32, recv_message)) polls all command        *)
(* handlers of a connection from that one task, so handlers interleave     *)
(* only at their .await points and the code between two awaits is one      *)
(* atomic step.  write_message is a separately spawned task and runs in    *)
(* parallel with the handlers.                                             *)
(***************************************************************************)
EXTENDS Integers, Sequences, FiniteSets, TLC

\* ---------------------------------------------------------------- bounds
\* external owner identifiers (mxid) the remote peer uses
Owners == {"@a:hs", "@b:hs"}
\* frames the remote peer sends over the whole run; a command's request id is
\* the index of its frame, so request ids are pairwise distinct
MaxFrames == 2
\* futures the read loop drives at once (for_each_concurrent's limit, 32 in main.rs)
MaxInflight == 2
\* successful handshakes over the whole run
MaxConns == 2
\* ids in the mention list of one message
MaxMentions == 2

\* ------------------------------------------------------- program constants
\* Args.port default: the callback port handed to WechatManager::new
MsgHookPort == 23333
DEFAULT_WRITE_WS_RETRY_TIME == 3
\* constants.rs: the control API's request types
WECHAT_MSG_SEND_TEXT == 2
WECHAT_MSG_SEND_AT == 3
WECHAT_MSG_SEND_IMAGE == 5
WECHAT_MSG_SEND_FILE == 6

\* ------------------------------------------------------------ wire values
\* ws.rs CommandType, by serde name
CommandType ==
    {"connect", "disconnect", "login_qr", "is_login", "get_self", "get_user_info",
     "get_group_info", "get_group_members", "get_group_member_nickname",
     "get_friend_list", "get_group_list", "send_message",
     "response", "error", "ping", "__websocket_closed"}

\* the arms of _handle_matrix_events that match msg.data against Query
QueryCommands ==
    {"get_user_info", "get_group_info", "get_group_members", "get_group_member_nickname"}

\* the arms that await one call of the session and reply with its result
CallCommands ==
    {"login_qr", "is_login", "get_self", "get_friend_list", "get_group_list"}
        \cup QueryCommands \cup {"send_message"}

\* the kinds that fall to the final `_ => bail!` arm
UnsupportedCommands == {"response", "error", "ping", "__websocket_closed"}

\* ws/recv.rs MatrixMessageType, by variant name
MatrixMessageType ==
    {"Text", "Emote", "Notice", "Image", "Location", "Video", "Audio", "File"}

\* failure messages
ErrNoPidForMxid == "cannot get wechat pid by mxid"
ErrNoInstanceForPid == "cannot get wechat instance by pid"
ErrDropNoPid == "get pid by mxid failed"
ErrDeserialize == "deserialize matrix message failed"
ErrMismatch == "message type and data are mismatched"
ErrLoadLibrary == "load wxDriver64.dll failed"
ErrStartListen == "start listen failed with return value: 0"
ErrUpstream == "hooked client control api failed"
ErrFetch == "get media by url failed"
ErrCreate == "create file failed"
ErrWrite == "write file failed"

VARIABLES
    pid_instance_map,    \* WechatManager.pid_instance_map: pid -> WechatInstance
    mxid_pid_map,        \* WechatManager.mxid_pid_map: mxid -> pid
    wechat_listen_port,  \* WechatManager.wechat_listen_port (AtomicU32)
    next_pid,            \* pid the next launched native client gets
    inflight,            \* command futures suspended at an .await
    last,                \* the command whose handling completed last
    last_fail,           \* frame index of the latest failed frame of this connection
    nframes,             \* frames received so far
    conns,               \* successful handshakes so far
    reading,             \* connect_ws is polling read_message
    stream_open,         \* the reader stream has not ended
    writer_up,           \* this connection's write_message task is alive
    receivers,           \* live broadcast Receivers (write_message tasks)
    sm,                  \* one call of WechatInstance::send_message and its effects
    ws,                  \* the task `ws` of main: the reconnect loop and its clock
    ch,                  \* the broadcast channel, its Receivers and the sockets
    cb,                  \* the callback server: its connections and what they emitted
    tr,                  \* one call of handle_wechat_callback: its line, files and result
    pl,                  \* the callback lines of each connection on their way to the queue
    exited,              \* pids of launched native clients that are no longer running
    op,                  \* one call of retriable_open_file: its position, delay and result
    lk                   \* the two registry mutexes and the tasks that call the registry

vars ==
    <<pid_instance_map, mxid_pid_map, wechat_listen_port, next_pid, inflight, last,
      last_fail, nframes, conns, reading, stream_open, writer_up, receivers, sm, ws,
      ch, cb, tr, pl, exited, op, lk>>

side == <<exited, op, lk>>
registry == <<pid_instance_map, mxid_pid_map>>
transport == <<conns, reading, stream_open, writer_up, receivers>>
dispatcher ==
    <<pid_instance_map, mxid_pid_map, wechat_listen_port, next_pid, inflight, last,
      last_fail, nframes, conns, reading, stream_open, writer_up, receivers>>

\* ------------------------------------------------------------ finite maps
Put(m, k, v) == [x \in DOMAIN m \cup {k} |-> IF x = k THEN v ELSE m[x]]
Del(m, k) == [x \in DOMAIN m \ {k} |-> m[x]]
EmptyMap == [x \in {} |-> 0]

\* ------------------------------------------------------------- the session
WechatInstance(pid, port, mxid) == [pid |-> pid, port |-> port, mxid |-> mxid]
NoInstance == [pid |-> 0, port |-> 0, mxid |-> ""]

\* anyhow::Result
Ok(v) == [ok |-> TRUE, val |-> v, err |-> ""]
Err(e) == [ok |-> FALSE, val |-> NoInstance, err |-> e]

\* ---------------------------------------------------------------- registry
get_instance_by_pid(db, pid) ==
    IF pid \in DOMAIN db THEN Ok(db[pid]) ELSE Err(ErrNoInstanceForPid)

\* C6 variant: the lookup by owner finds nothing although the owner is registered
get_instance_by_mxid_forgets(db, mxid_map, mxid) == Err(ErrNoPidForMxid)

get_instance_by_mxid(db, mxid_map, mxid) ==
    IF mxid \in DOMAIN mxid_map
    THEN get_instance_by_pid(db, mxid_map[mxid])
    ELSE Err(ErrNoPidForMxid)

\* both guards are held from before the first insert to after the second
store_instance(db, mxid_map, mxid, instance) ==
    [ok |-> TRUE, err |-> "",
     mxid_map |-> Put(mxid_map, mxid, instance.pid),
     db |-> Put(db, instance.pid, instance)]

\* C2 variant: the drop forgets the owner and leaves the session under its pid
drop_instance_keeps_pid(db, mxid_map, mxid) ==
    IF mxid \notin DOMAIN mxid_map
    THEN [ok |-> FALSE, err |-> ErrDropNoPid, mxid_map |-> mxid_map, db |-> db]
    ELSE [ok |-> TRUE, err |-> "", db |-> db, mxid_map |-> Del(mxid_map, mxid)]

\* C7 variant: dropping an owner that is not registered succeeds silently
drop_instance_lenient(db, mxid_map, mxid) ==
    IF mxid \notin DOMAIN mxid_map
    THEN [ok |-> TRUE, err |-> "", mxid_map |-> mxid_map, db |-> db]
    ELSE [ok |-> TRUE, err |-> "",
          db |-> Del(db, mxid_map[mxid]),
          mxid_map |-> Del(mxid_map, mxid)]

\* a drop that removes the entries and then returns an Err
drop_instance_then_fails(db, mxid_map, mxid) ==
    IF mxid \notin DOMAIN mxid_map
    THEN [ok |-> FALSE, err |-> ErrDropNoPid, mxid_map |-> mxid_map, db |-> db]
    ELSE [ok |-> FALSE, err |-> ErrDropNoPid,
          db |-> Del(db, mxid_map[mxid]),
          mxid_map |-> Del(mxid_map, mxid)]

drop_instance(db, mxid_map, mxid) ==
    IF mxid \notin DOMAIN mxid_map
    THEN [ok |-> FALSE, err |-> ErrDropNoPid, mxid_map |-> mxid_map, db |-> db]
    ELSE [ok |-> TRUE, err |-> "",
          db |-> Del(db, mxid_map[mxid]),
          mxid_map |-> Del(mxid_map, mxid)]


\* ------------------------------------------------------------ the requests
\* ws/recv.rs MatrixRequestDataField (untagged) and the Option around it
\* ws.rs MatrixMessageDataField (untagged) and the Option around it: the variant,
\* the mention list of Mentions, the name of Blob and Media
Payload(tag, mentions, name) == [tag |-> tag, mentions |-> mentions, name |-> name]
NoPayload == Payload("None", <<>>, "")

NoData == [tag |-> "None", message_type |-> "", payload |-> NoPayload]
QueryData == [tag |-> "Query", message_type |-> "", payload |-> NoPayload]
MessageData(message_type, payload) ==
    [tag |-> "Message", message_type |-> message_type, payload |-> payload]

\* C11 variant: a Text is sent as plain text whatever its data is
send_message_arm_any_text(message_type, payload) ==
    CASE message_type = "Text" /\ payload.tag = "Mentions" ->
            IF payload.mentions = <<>> THEN "send_text" ELSE "send_at_text"
      [] message_type = "Text" -> "send_text"
      [] message_type \in {"Image", "Video"} /\ payload.tag = "Media" -> "send_image"
      [] message_type = "File" /\ payload.tag = "Media" -> "send_file"
      [] OTHER -> "mismatch"

\* C9 variant: a Text with a mention list is an at-send even when the list is empty
send_message_arm_at_always(message_type, payload) ==
    CASE message_type = "Text" /\ payload.tag = "None" -> "send_text"
      [] message_type = "Text" /\ payload.tag = "Mentions" -> "send_at_text"
      [] message_type \in {"Image", "Video"} /\ payload.tag = "Media" -> "send_image"
      [] message_type = "File" /\ payload.tag = "Media" -> "send_file"
      [] OTHER -> "mismatch"

\* the arm of WechatInstance::send_message a message takes, by its kind and the
\* variant of its data
send_message_arm(message_type, payload) ==
    CASE message_type = "Text" /\ payload.tag = "None" -> "send_text"
      [] message_type = "Text" /\ payload.tag = "Mentions" ->
            IF payload.mentions = <<>> THEN "send_text" ELSE "send_at_text"
      [] message_type \in {"Image", "Video"} /\ payload.tag = "Media" -> "send_image"
      [] message_type = "File" /\ payload.tag = "Media" -> "send_file"
      [] OTHER -> "mismatch"

\* the messages the dispatcher is driven with
DispatchMessages == {MessageData("Text", NoPayload), MessageData("Emote", NoPayload)}

\* the (command, data) pairs the remote peer sends
Requests ==
    [command : CommandType \ (QueryCommands \cup {"send_message"}), data : {NoData}]
        \cup [command : QueryCommands, data : {NoData, QueryData, MessageData("Text", NoPayload)}]
        \cup [command : {"send_message"}, data : {NoData, QueryData} \cup DispatchMessages]

\* WebsocketMatrixRequest
Msg(req, mxid, command, data) ==
    [req |-> req, mxid |-> mxid, command |-> command, data |-> data]

\* a handler future suspended at an .await: its request and its locals
Task(msg, pc, ins) ==
    [req |-> msg.req, mxid |-> msg.mxid, command |-> msg.command, data |-> msg.data,
     pc |-> pc, ins |-> ins]

MsgOf(t) == Msg(t.req, t.mxid, t.command, t.data)

\* ---------------------------------------------------------- the reply path
\* utils::retriable_write: broadcast Sender::send fails iff no Receiver is live
RECURSIVE retriable_write(_, _)
retriable_write(rcv, retry_time) ==
    IF retry_time = 0 THEN FALSE
    ELSE IF rcv > 0 THEN TRUE
    ELSE retriable_write(rcv, retry_time - 1)

write_to_ws(rcv) == retriable_write(rcv, DEFAULT_WRITE_WS_RETRY_TIME)

\* WebsocketCommand as handed to the channel; queued: the channel took it
Reply(command, mxid, req, data, rcv) ==
    [command |-> command, mxid |-> mxid, req |-> req, data |-> data,
     queued |-> write_to_ws(rcv)]

write_command_resp(mxid, req, data, rcv) == <<Reply("response", mxid, req, data, rcv)>>

write_command_error(mxid, req, message, rcv) == <<Reply("error", mxid, req, message, rcv)>>

\* results of _handle_matrix_events: the replies it wrote and how it returned
Done(replies) == [ok |-> TRUE, err |-> "", replies |-> replies]
Fail(e) == [ok |-> FALSE, err |-> e, replies |-> <<>>]

\* C4 variant: the Err of the inner handler is logged and no reply is written
handle_matrix_events_silent(msg, inner, rcv) == inner.replies

\* handle_matrix_events: an Err of the inner handler becomes an Error reply
handle_matrix_events(msg, inner, rcv) ==
    IF inner.ok THEN inner.replies
    ELSE inner.replies \o write_command_error(msg.mxid, msg.req, inner.err, rcv)

NoLast ==
    [req |-> 0, mxid |-> "", command |-> "", data |-> NoData, res |-> "", ok |-> TRUE,
     err |-> "", replies |-> <<>>]

\* recv_message returns: the handler of msg has run to its end, after the
\* session's call (if it got that far) returned res; n frames were received by then
Complete(msg, res, inner, n) ==
    /\ last' = [req |-> msg.req, mxid |-> msg.mxid, command |-> msg.command,
                data |-> msg.data, res |-> res, ok |-> inner.ok, err |-> inner.err,
                replies |-> handle_matrix_events(msg, inner, receivers)]
    /\ last_fail' = IF inner.ok THEN last_fail ELSE n

\* ------------------------------------------------------------ send_message
\* wechat ids, as strings of characters; none holds the separator ","
WechatIds == {<<"a">>, <<"b">>}

SeqsUpTo(S, n) == UNION {[1..k -> S] : k \in 0..n}

\* [String]::join(",")
RECURSIVE join(_)
join(parts) ==
    IF parts = <<>> THEN <<>>
    ELSE IF Len(parts) = 1 THEN parts[1]
    ELSE parts[1] \o <<",">> \o join(Tail(parts))

\* str::split(','), as get_mentions reads a joined id list back
RECURSIVE split(_)
split(str) ==
    IF \A i \in 1..Len(str) : str[i] # ","
    THEN <<str>>
    ELSE LET i == CHOOSE k \in 1..Len(str) :
                      str[k] = "," /\ \A j \in 1..(k - 1) : str[j] # ","
         IN <<SubSeq(str, 1, i - 1)>> \o split(SubSeq(str, i + 1, Len(str)))

\* MatrixRequestDataMessage
Target == "room"
Content == "hello"
MediaUrl == "mxc://media"

SendPayloads ==
    {NoPayload, Payload("Blob", <<>>, ""), Payload("Location", <<>>, ""),
     Payload("Media", <<>>, ""), Payload("Media", <<>>, "pic.png"),
     Payload("Media", <<>>, "/abs.png"),
     Payload("Link", <<>>, "")}
        \cup {Payload("Mentions", m, "") : m \in SeqsUpTo(WechatIds, MaxMentions)}

SendInputs == [message_type : MatrixMessageType, payload : SendPayloads]

\* utils::get_file_maybe_gzip_decompress and utils::calculate_md5, by name
blob_of(url) == "bytes of " \o url
calculate_md5(blob) == "MD5 of " \o blob

\* the media names that are absolute paths
AbsoluteNames == {"/abs.png"}

\* Path::join: an absolute operand replaces the path it is joined to
path_join(dir, name) ==
    IF name \in AbsoluteNames THEN [dir |-> "", file |-> name]
    ELSE [dir |-> dir, file |-> name]

\* save_media's filepath: save_path/matrix_media joined with media.name, or with
\* the digest of the blob when the name is empty
media_filepath(name, blob) ==
    path_join("save_path/matrix_media", IF name = "" THEN calculate_md5(blob) ELSE name)
NoPath == [dir |-> "", file |-> ""]

\* one POST to the control API: its type and the fields of its body
ApiCall(type, to, msg, wxids, path) ==
    [type |-> type, to |-> to, msg |-> msg, wxids |-> wxids, path |-> path]

\* C10 variant: the image arm posts before it has a path, with the file-send type
send_call_file_for_image(arm, payload, path) ==
    CASE arm = "send_text" -> ApiCall(WECHAT_MSG_SEND_TEXT, Target, Content, <<>>, NoPath)
      [] arm = "send_at_text" ->
            ApiCall(WECHAT_MSG_SEND_AT, Target, Content, join(payload.mentions), NoPath)
      [] arm = "send_image" -> ApiCall(WECHAT_MSG_SEND_FILE, Target, "", <<>>, NoPath)
      [] arm = "send_file" -> ApiCall(WECHAT_MSG_SEND_FILE, Target, "", <<>>, path)

\* the POST of send_text, send_at_text, send_image and send_file
send_call(arm, payload, path) ==
    CASE arm = "send_text" -> ApiCall(WECHAT_MSG_SEND_TEXT, Target, Content, <<>>, NoPath)
      [] arm = "send_at_text" ->
            ApiCall(WECHAT_MSG_SEND_AT, Target, Content, join(payload.mentions), NoPath)
      [] arm = "send_image" -> ApiCall(WECHAT_MSG_SEND_IMAGE, Target, "", <<>>, path)
      [] arm = "send_file" -> ApiCall(WECHAT_MSG_SEND_FILE, Target, "", <<>>, path)

\* a call of send_message: its argument, where it is suspended, the arm it took,
\* save_media's path, the POSTs made, the files created, its result
SendState(msg, pc, arm, path, calls, files, result) ==
    [msg |-> msg, pc |-> pc, arm |-> arm, path |-> path, calls |-> calls,
     files |-> files, result |-> result]

NoSend ==
    SendState([message_type |-> "", payload |-> NoPayload], "idle", "", NoPath, <<>>,
              <<>>, "")

\* send_message up to its first .await
SendMessageStart ==
    /\ sm.pc = "start"
    /\ LET arm == send_message_arm(sm.msg.message_type, sm.msg.payload)
       IN sm' = CASE arm = "mismatch" ->
                       [sm EXCEPT !.pc = "done", !.arm = arm, !.result = ErrMismatch]
                  [] arm \in {"send_image", "send_file"} ->
                       [sm EXCEPT !.pc = "fetch", !.arm = arm]
                  [] OTHER -> [sm EXCEPT !.pc = "post", !.arm = arm]
    /\ UNCHANGED <<dispatcher, ws, ch, cb, tr, pl, side>>

\* save_media: get_file_maybe_gzip_decompress(media.url) returns
FetchReturns(fetched) ==
    /\ sm.pc = "fetch"
    /\ sm' = IF fetched
             THEN [sm EXCEPT !.pc = "create",
                             !.path = media_filepath(sm.msg.payload.name,
                                                     blob_of(MediaUrl))]
             ELSE [sm EXCEPT !.pc = "done", !.result = ErrFetch]
    /\ UNCHANGED <<dispatcher, ws, ch, cb, tr, pl, side>>

\* save_media: File::create(filepath) returns
CreateReturns(created) ==
    /\ sm.pc = "create"
    /\ sm' = IF created
             THEN [sm EXCEPT !.pc = "write",
                             !.files = Append(@, [path |-> sm.path, written |-> FALSE])]
             ELSE [sm EXCEPT !.pc = "done", !.result = ErrCreate]
    /\ UNCHANGED <<dispatcher, ws, ch, cb, tr, pl, side>>

\* save_media: file.write_all(&media_blob) returns
WriteReturns(written) ==
    /\ sm.pc = "write"
    /\ sm' = IF written
             THEN [sm EXCEPT !.pc = "post", !.files[Len(sm.files)].written = TRUE]
             ELSE [sm EXCEPT !.pc = "done", !.result = ErrWrite]
    /\ UNCHANGED <<dispatcher, ws, ch, cb, tr, pl, side>>

\* wechat_hook_post_raw returns: the POST of the arm was made
PostReturns(posted) ==
    /\ sm.pc = "post"
    /\ sm' = [sm EXCEPT !.pc = "done",
                        !.calls = Append(@, send_call(sm.arm, sm.msg.payload, sm.path)),
                        !.result = IF posted THEN "ok" ELSE ErrUpstream]
    /\ UNCHANGED <<dispatcher, ws, ch, cb, tr, pl, side>>

\* ------------------------------------------------------ the reconnect loop
\* the clock Utc::now() reads, in minutes, and the connection ends followed
MaxTime == 7
MaxEnds == 6

\* main: `wait`, in seconds, and the minutes of the trailing window
Wait == 5
Window == 5
MAX_WS_RECONNECT_COUNT == 5

\* the task `ws`: where it is suspended (connect_async of connect_ws, the select
\* of connect_ws, sleep), or how it ended (returned, panicked); err_cnt and
\* last_err; the duration it last slept for; the clock; the times at which
\* connect_ws returned; the handshakes attempted; whether the process lives
WsState(pc, err_cnt, last_err, wait, now, ends, handshakes, alive) ==
    [pc |-> pc, err_cnt |-> err_cnt, last_err |-> last_err, wait |-> wait, now |-> now,
     ends |-> ends, handshakes |-> handshakes, alive |-> alive]

\* the values of the three subsystems while another one is followed
NoWs == WsState("idle", 0, 0, 0, 0, <<>>, 0, TRUE)

\* the task is spawned and calls connect_ws at once
InitWs == WsState("handshake", 0, 0, 0, 0, <<>>, 1, TRUE)

\* C12 variant: the counter grows at every failure, however long ago the last was
next_err_cnt_no_window(err_cnt, now, last_err) == err_cnt + 1

\* `if Utc::now() - last_err < 5 minutes { err_cnt += 1 } else { err_cnt = 1 }`
next_err_cnt(err_cnt, now, last_err) ==
    IF now - last_err < Window THEN err_cnt + 1 ELSE 1

\* C13 variant: the loop gives up when the counter reaches the maximum
gives_up_at_max(err_cnt) == err_cnt >= MAX_WS_RECONNECT_COUNT

\* `if err_cnt > MAX_WS_RECONNECT_COUNT { return }`
gives_up(err_cnt) == err_cnt > MAX_WS_RECONNECT_COUNT

\* connect_async(request).await returns Ok: connect_ws goes on to its select
LoopHandshakeOk ==
    /\ ws.pc = "handshake"
    /\ ws' = [ws EXCEPT !.pc = "connected"]
    /\ UNCHANGED <<dispatcher, sm, ch, cb, tr, pl, side>>

\* connect_async(request).await returns Err: .expect("Failed to connect") panics
\* in the task; main's select over the task's JoinHandle completes and main returns
LoopHandshakeFails ==
    /\ ws.pc = "handshake"
    /\ ws' = [ws EXCEPT !.pc = "panicked", !.alive = FALSE]
    /\ UNCHANGED <<dispatcher, sm, ch, cb, tr, pl, side>>

\* connect_ws returns: the rest of the loop body up to `sleep(..).await`, or the
\* `return` that lets main's select complete
LoopConnectionEnds ==
    /\ ws.pc = "connected"
    /\ Len(ws.ends) < MaxEnds
    /\ LET cnt == next_err_cnt(ws.err_cnt, ws.now, ws.last_err)
       IN ws' = IF gives_up(cnt)
                THEN [ws EXCEPT !.pc = "returned", !.err_cnt = cnt, !.alive = FALSE,
                                !.ends = Append(@, ws.now)]
                ELSE [ws EXCEPT !.pc = "sleep", !.err_cnt = cnt, !.last_err = ws.now,
                                !.wait = Wait * cnt, !.ends = Append(@, ws.now)]
    /\ UNCHANGED <<dispatcher, sm, ch, cb, tr, pl, side>>

\* sleep(wait * err_cnt).await returns: the loop calls connect_ws again
LoopSleepReturns ==
    /\ ws.pc = "sleep"
    /\ ws' = [ws EXCEPT !.pc = "handshake", !.handshakes = @ + 1]
    /\ UNCHANGED <<dispatcher, sm, ch, cb, tr, pl, side>>

\* a minute passes
Tick ==
    /\ ws.alive
    /\ ws.now < MaxTime
    /\ ws' = [ws EXCEPT !.now = @ + 1]
    /\ UNCHANGED <<dispatcher, sm, ch, cb, tr, pl, side>>

NoCh == [pc |-> "idle"]

\* ---------------------------------------------------- the broadcast channel
\* messages handed to write_to_ws, the channel's capacity (--buffer-size) and the
\* calls of connect_ws followed
MaxMsgs == 2
Capacity == 1
MaxChanConns == 2

\* the channel and its users: where the task `ws` is (the connect_async or the
\* select of connect_ws number cur, sleep, panicked); the messages write_to_ws
\* returned Ok for (1..accepted); the ones the channel stored, oldest first, of
\* which it retains the last Capacity; the Receivers alive, by the connect_ws
\* that got them: the position in queue each reads next and whether a
\* write_message task holds it; the sockets of the successful handshakes; the
\* writer.send calls made on each socket and their results
ChanState(pc, cur, accepted, queue, rxs, sock, written) ==
    [pc |-> pc, cur |-> cur, accepted |-> accepted, queue |-> queue, rxs |-> rxs,
     sock |-> sock, written |-> written]

\* inner_tx.subscribe(): a Receiver that sees what is sent from now on
subscribe(queue) == [next |-> Len(queue) + 1, writer |-> FALSE]

\* the task is spawned and calls connect_ws(.., inner_tx.subscribe())
InitCh ==
    ChanState("handshake", 1, 0, <<>>, Put(EmptyMap, 1, subscribe(<<>>)), EmptyMap,
              EmptyMap)

\* the position of the oldest message the channel still retains
oldest(queue) == IF Len(queue) > Capacity THEN Len(queue) - Capacity + 1 ELSE 1

\* write_to_ws(data): retriable_write returns Ok(()) whether or not one of its
\* broadcast sends found a Receiver; only then is the message stored
ChanSend ==
    /\ ch.pc # "panicked"
    /\ ch.accepted < MaxMsgs
    /\ ch' = [ch EXCEPT !.accepted = @ + 1,
                        !.queue = IF write_to_ws(Cardinality(DOMAIN ch.rxs))
                                  THEN Append(@, ch.accepted + 1)
                                  ELSE @]
    /\ UNCHANGED <<dispatcher, sm, ws, cb, tr, pl, side>>

\* connect_async returns Ok: the stream is split and write_message is spawned
\* with the Receiver
ChanHandshakeOk ==
    /\ ch.pc = "handshake"
    /\ ch' = [ch EXCEPT !.pc = "connected",
                        !.rxs[ch.cur].writer = TRUE,
                        !.sock = Put(@, ch.cur, "open"),
                        !.written = Put(@, ch.cur, <<>>)]
    /\ UNCHANGED <<dispatcher, sm, ws, cb, tr, pl, side>>

\* connect_async returns Err: the task panics and the Receiver is dropped
ChanHandshakeFails ==
    /\ ch.pc = "handshake"
    /\ ch' = [ch EXCEPT !.pc = "panicked", !.rxs = Del(@, ch.cur)]
    /\ UNCHANGED <<dispatcher, sm, ws, cb, tr, pl, side>>

\* the peer or the network severs a socket: writes on it fail from now on
Sever(c) ==
    /\ c \in DOMAIN ch.sock
    /\ ch.sock[c] = "open"
    /\ ch' = [ch EXCEPT !.sock[c] = "severed"]
    /\ UNCHANGED <<dispatcher, sm, ws, cb, tr, pl, side>>

\* C15 variant: the writer logs a write on a severed socket and goes on
writer_returns_never(res) == FALSE

\* write_message `return`s on ConnectionClosed, AlreadyClosed and Io
writer_returns(res) == res = "severed"

\* write_message of connection c: rx.recv().await returns, then
\* writer.send(Message::Text(msg)).await returns res
WriterStep(c, res) ==
    /\ c \in DOMAIN ch.rxs
    /\ ch.rxs[c].writer
    /\ ch.rxs[c].next <= Len(ch.queue)
    /\ IF ch.rxs[c].next < oldest(ch.queue)
       THEN \* Err(Lagged): `while let Ok(..)` ends, the task and its Receiver are gone
            /\ res = "lagged"
            /\ ch' = [ch EXCEPT !.rxs = Del(@, c)]
       ELSE /\ res \in (IF ch.sock[c] = "open" THEN {"ok", "error"} ELSE {"severed"})
            /\ ch' = [ch EXCEPT
                        !.written[c] = Append(@, [msg |-> ch.queue[ch.rxs[c].next],
                                                  res |-> res]),
                        !.rxs = IF writer_returns(res) THEN Del(@, c)
                                ELSE [@ EXCEPT ![c].next = @ + 1]]
    /\ UNCHANGED <<dispatcher, sm, ws, cb, tr, pl, side>>

\* read_message ends (the stream is exhausted): select returns and connect_ws
\* with it; write_message stays spawned with its Receiver
ChanReaderEnds ==
    /\ ch.pc = "connected"
    /\ ch' = [ch EXCEPT !.pc = "sleep"]
    /\ UNCHANGED <<dispatcher, sm, ws, cb, tr, pl, side>>

\* write_message of this connection has ended: select returns and connect_ws
\* with it
ChanWriterEnded ==
    /\ ch.pc = "connected"
    /\ ch.cur \notin DOMAIN ch.rxs
    /\ ch' = [ch EXCEPT !.pc = "sleep"]
    /\ UNCHANGED <<dispatcher, sm, ws, cb, tr, pl, side>>

\* sleep returns: connect_ws(.., inner_tx.subscribe()) is called again
ChanSleepReturns ==
    /\ ch.pc = "sleep"
    /\ ch.cur < MaxChanConns
    /\ ch' = [ch EXCEPT !.pc = "handshake", !.cur = @ + 1,
                        !.rxs = Put(@, ch.cur + 1, subscribe(ch.queue))]
    /\ UNCHANGED <<dispatcher, sm, ws, cb, tr, pl, side>>
NoCb == [pc |-> "idle"]
NoTr == [pc |-> "idle"]
NoPl == [pc |-> "idle"]
NoOp == [pc |-> "idle"]
NoLk == [pc |-> "idle"]

\* ------------------------------------------------------ the event translator
\* wechat.rs WechatMessageType and WechatMessageAppType (as parse_app sees it)
WechatMessageType ==
    {"Unknown", "Text", "Image", "Voice", "Video", "Sticker", "Location", "App",
     "PrivateVoIP", "LastMessage", "Hint", "System"}

\* what the XML an arm parses can be: well formed with the fields the arm reads,
\* the empty string, or not parseable into the arm's structure
XmlStates == {"ok", "empty", "malformed"}

\* the sub-structure of a well-formed body that an arm looks at
SubFields(msg_type) ==
    CASE msg_type = "Text" -> {"atuserlist", "no_atuserlist"}
      [] msg_type = "Location" -> {"numbers", "bad_numbers"}
      [] msg_type = "App" ->
            {"File", "Sticker", "ReplyChatSender", "ReplyUserSender", "ReplyBothSenders",
             "ReplyNoSender", "ReplyNoRefermsg", "Notice", "NoticeNoAnnouncement",
             "Other"}
      [] msg_type = "PrivateVoIP" -> {"status1", "status2", "status9", "bubble"}
      [] msg_type = "System" -> {"pat", "revokemsg", "other"}
      [] OTHER -> {"none"}

\* the ids of a callback line: the account itself, the contact, the conversations
SelfId == "wxid_self"
WechatId == "wxid_friend"
Senders == {"weixin", "wxid_friend", "room@chatroom"}
ends_with_chatroom(sender) == sender = "room@chatroom"

\* the pid of the session the callback server's runs register, and one of no session
RegisteredPid == 1
StrangePid == 2

\* wechat.rs WechatMessage, by the fields handle_wechat_callback reads
WechatMessage(pid, msg_type, is_send_by_phone, is_send_message, sender, xml, sub) ==
    [pid |-> pid, msg_type |-> msg_type, is_send_by_phone |-> is_send_by_phone,
     is_send_message |-> is_send_message, sender |-> sender, xml |-> xml, sub |-> sub]

\* the lines the server is driven with: every kind with every body from the
\* contact, and the flags and senders varied on well-formed lines
WechatMessages ==
    UNION {{WechatMessage(pid, t, "None", 0, "wxid_friend", xml, sub) :
                pid \in {RegisteredPid, StrangePid}, xml \in XmlStates,
                sub \in SubFields(t)} : t \in WechatMessageType}
    \cup UNION {{WechatMessage(RegisteredPid, t, phone, send, sender, "ok", sub) :
                    phone \in {"None", "0", "1"}, send \in {0, 1}, sender \in Senders,
                    sub \in SubFields(t)} : t \in {"Text", "Hint", "System"}}

\* the placeholder contents of the failure arms (manager/wechat.rs 132-273)
PlaceholderImage == "[image download failed]"
PlaceholderVoice == "[voice download failed]"
PlaceholderVideo == "[video download failed]"
PlaceholderSticker == "[sticker download failed]"
PlaceholderLocation == "[location parse failed]"
PlaceholderFile == "[file download failed]"
PlaceholderApp == "[app parse failed]"
PlaceholderVoIP == "[VoIP status parse failed]"
PlaceholderHint == "[revoke parse failed]"
PlaceholderSystem == "[system message parse failed]"
Placeholders ==
    {PlaceholderImage, PlaceholderVoice, PlaceholderVideo, PlaceholderSticker,
     PlaceholderLocation, PlaceholderFile, PlaceholderApp, PlaceholderVoIP,
     PlaceholderHint, PlaceholderSystem}

ErrNoData == "no data in extra info"
ErrXml == "xml deserialize failed"
ErrNoFile == "file not found"
ErrParseFloat == "invalid float literal"
ErrNoSender == "cannot find sender"

\* ws/send.rs WebsocketEvent: the base fields and `extra`, by its variant
WebsocketEvent(mxid, event_type, sender, target, content, reply, extra) ==
    [mxid |-> mxid, event_type |-> event_type, sender |-> sender, target |-> target,
     content |-> content, reply |-> reply, extra |-> extra]

\* ws/send.rs ReplyInfo, and the absent Option<ReplyInfo> of an event
ReplyInfo(id, sender) == [id |-> id, sender |-> sender]
NoReply == ReplyInfo("None", "None")

\* the XML is read into the structure an arm wants
parse_xml(xml) ==
    IF xml = "empty" THEN Err(ErrNoData)
    ELSE IF xml = "malformed" THEN Err(ErrXml)
    ELSE Ok("parsed")

get_mentions(xml, sub) ==
    IF ~parse_xml(xml).ok THEN parse_xml(xml)
    ELSE Ok(IF sub = "atuserlist" THEN "Mentions" ELSE "None")

\* fetch_image, fetch_video, fetch_file: the file is opened, or not
fetch_path(fetched) == IF fetched THEN Ok("Blob") ELSE Err(ErrNoFile)

\* fetch_voice, fetch_sticker: the XML is parsed, then the file or url is fetched
fetch_by_xml(xml, fetched) ==
    IF ~parse_xml(xml).ok THEN parse_xml(xml) ELSE fetch_path(fetched)

parse_location(xml, sub) ==
    IF ~parse_xml(xml).ok THEN parse_xml(xml)
    ELSE IF sub = "bad_numbers" THEN Err(ErrParseFloat)
    ELSE Ok("Location")

\* parse_app: the variant of EnumAppMessage
parse_app(xml, sub) ==
    IF ~parse_xml(xml).ok THEN parse_xml(xml)
    ELSE Ok(CASE sub = "File" -> "File"
              [] sub = "Sticker" -> "Sticker"
              [] sub \in {"ReplyChatSender", "ReplyUserSender", "ReplyBothSenders",
                          "ReplyNoSender"} -> "Reply"
              [] sub = "Notice" -> "Announcement"
              [] OTHER -> "Link")

\* the user-level sender tried before the conversation-level one
reply_sender_user_first(sub) ==
    CASE sub \in {"ReplyUserSender", "ReplyBothSenders"} -> "fromusr"
      [] sub = "ReplyChatSender" -> "chatusr"
      [] OTHER -> "None"

\* r.chat_sender.or(r.user_sender)
reply_sender(sub) ==
    CASE sub \in {"ReplyChatSender", "ReplyBothSenders"} -> "chatusr"
      [] sub = "ReplyUserSender" -> "fromusr"
      [] OTHER -> "None"

\* parse_private_voip never fails: what is in neither shape gives ""
parse_private_voip(xml, sub) ==
    IF xml # "ok" THEN Ok("")
    ELSE Ok(CASE sub = "status1" -> "VoIP: Started a call"
              [] sub = "status2" -> "VoIP: Call ended"
              [] sub = "bubble" -> "VoIP: bubble.msg"
              [] OTHER -> "VoIP: Unknown status")

parse_hint(xml) == IF xml = "empty" THEN Err(ErrNoData) ELSE Ok("msg.message")

parse_system_message(xml, sub) ==
    IF xml = "empty" THEN Err(ErrNoData)
    ELSE IF xml = "malformed" THEN Ok("")
    ELSE IF sub \in {"pat", "revokemsg"} THEN Ok("")
    ELSE Ok("msg.message")

\* what handle_wechat_callback returns and the events it wrote
Handled(events) == [ok |-> TRUE, err |-> "", events |-> events]
HandleFails(e) == [ok |-> FALSE, err |-> e, events |-> <<>>]

\* the arm of msg.msg_type: the event it leaves, or the Err it returns;
\* `fetched` tells whether the file or url the arm needs could be read
\* a failure text on an event that claims to be an Image
placeholder_event_as_image(base, placeholder) ==
    [base EXCEPT !.content = placeholder, !.event_type = "Image"]

\* the Err arm of a fetch or parse: the base event, of kind Text and without
\* extra, with the failure text as content
placeholder_event(base, placeholder) == [base EXCEPT !.content = placeholder]

translate(msg, base, fetched) ==
    LET t == msg.msg_type
        With(event_type, content, extra) ==
            Ok([base EXCEPT !.event_type = event_type, !.content = content,
                            !.extra = extra])
        Blob(res, event_type, placeholder) ==
            IF res.ok THEN With(event_type, base.content, "Blob")
            ELSE Ok(placeholder_event(base, placeholder))
    IN CASE t = "Unknown" -> Ok(base)
         [] t = "Text" ->
               LET mentions == get_mentions(msg.xml, msg.sub)
               IN IF mentions.ok THEN With("Text", base.content, mentions.val)
                  ELSE mentions
         [] t = "Image" -> Blob(fetch_path(fetched), "Image", PlaceholderImage)
         [] t = "Voice" -> Blob(fetch_by_xml(msg.xml, fetched), "Audio", PlaceholderVoice)
         [] t = "Video" -> Blob(fetch_path(fetched), "Video", PlaceholderVideo)
         [] t = "Sticker" ->
               Blob(fetch_by_xml(msg.xml, fetched), "Image", PlaceholderSticker)
         [] t = "Location" ->
               IF parse_location(msg.xml, msg.sub).ok
               THEN With("Location", base.content, "Location")
               ELSE Ok(placeholder_event(base, PlaceholderLocation))
         [] t = "App" ->
               LET app == parse_app(msg.xml, msg.sub)
               IN IF ~app.ok THEN Ok(placeholder_event(base, PlaceholderApp))
                  ELSE CASE app.val = "File" ->
                              Blob(fetch_path(fetched), "File", PlaceholderFile)
                         [] app.val = "Sticker" ->
                              Blob(fetch_by_xml(msg.xml, fetched), "Image",
                                   PlaceholderSticker)
                         [] app.val = "Reply" ->
                              IF reply_sender(msg.sub) = "None" THEN Err(ErrNoSender)
                              ELSE Ok([base EXCEPT !.content = "appmsg.title",
                                                   !.reply =
                                                       ReplyInfo("refermsg.svrid",
                                                                 reply_sender(msg.sub))])
                         [] app.val = "Announcement" ->
                              With("Notice", "appmsg.textannouncement", "None")
                         [] OTHER -> With("App", base.content, "Link")
         [] t = "PrivateVoIP" ->
               With("VoIP", parse_private_voip(msg.xml, msg.sub).val, "None")
         [] t = "Hint" ->
               IF parse_hint(msg.xml).ok
               THEN With("Revoke", parse_hint(msg.xml).val, "None")
               ELSE Ok(placeholder_event(base, PlaceholderHint))
         [] t = "System" ->
               IF parse_system_message(msg.xml, msg.sub).ok
               THEN With("System", parse_system_message(msg.xml, msg.sub).val, "None")
               ELSE Ok(placeholder_event(base, PlaceholderSystem))

\* the pre-filter: the phone's echo of a message, unless it is a Hint
is_duplicate_any_kind(msg) == msg.is_send_by_phone = "0"

is_duplicate(msg) == msg.is_send_by_phone = "0" /\ msg.msg_type # "Hint"

\* sender and target of the base event: self id and msg.sender, and for a message
\* that was received the contact and, outside a chatroom, the own id
resolve_ignores_chatroom(msg) ==
    IF msg.is_send_message = 0
    THEN [sender |-> WechatId, target |-> SelfId]
    ELSE [sender |-> SelfId, target |-> msg.sender]

resolve(msg) ==
    LET inbound == msg.is_send_message = 0
    IN [sender |-> IF inbound THEN WechatId ELSE SelfId,
        target |-> IF inbound /\ ~ends_with_chatroom(msg.sender)
                   THEN SelfId ELSE msg.sender]

\* the System arm skips what the account itself or "weixin" sent
skips_system_weixin_only(msg) == msg.sender = "weixin"

skips_system(msg) == msg.sender = "weixin" \/ msg.is_send_message = 1

\* handle_wechat_callback(msg) with the registry db
handle_wechat_callback(db, msg, fetched) ==
    IF is_duplicate(msg) THEN Handled(<<>>)
    ELSE LET ins == get_instance_by_pid(db, msg.pid)
             base == WebsocketEvent(
                         ins.val.mxid, "Text", resolve(msg).sender, resolve(msg).target,
                         "msg.message", NoReply, "None")
         IN IF ~ins.ok THEN HandleFails(ins.err)
            ELSE IF msg.msg_type = "LastMessage" THEN Handled(<<>>)
            ELSE IF msg.msg_type = "System" /\ skips_system(msg) THEN Handled(<<>>)
            ELSE LET event == translate(msg, base, fetched)
                 IN IF event.ok THEN Handled(<<event.val>>) ELSE HandleFails(event.err)

\* ------------------------------------------------------- opening the file
\* fetch_image probes the path the hook reported, then its .png, .gif and .jpg
OpenRetry == 3
ImageCandidates == <<"base", "png", "gif", "jpg">>
OtherCandidates == <<"base">>

\* which of the names exist at each probe round: the hook writes the file under
\* one name from some round on (or after the last round), or two names are there
FileWorlds ==
    {[r \in 1..OpenRetry |-> IF r >= from THEN {n} ELSE {}] :
        from \in 1..(OpenRetry + 1), n \in {"base", "png", "gif", "jpg"}}
    \cup {[r \in 1..OpenRetry |-> {"gif", "jpg"}]}

\* the first name of filename_seq that opens in a round
RECURSIVE open_first(_, _, _)
open_first(filename_seq, present, i) ==
    IF i > Len(filename_seq) THEN 0
    ELSE IF filename_seq[i] \in present THEN i
    ELSE open_first(filename_seq, present, i + 1)

\* the loop of retriable_open_file from round `round` on
RECURSIVE open_rounds(_, _, _, _)
open_rounds(filename_seq, retry_time, files, round) ==
    IF round > retry_time THEN Err(ErrNoFile)
    ELSE LET i == open_first(filename_seq, files[round], 1)
         IN IF i # 0 THEN Ok([round |-> round, name |-> filename_seq[i]])
            ELSE open_rounds(filename_seq, retry_time, files, round + 1)

retriable_open_file_once(filename_seq, retry_time, files) ==
    open_rounds(filename_seq, 1, files, 1)

retriable_open_file(filename_seq, retry_time, files) ==
    open_rounds(filename_seq, retry_time, files, 1)

\* whether the fetch of the arm gets its file: fetch_image probes its candidates,
\* the others bail unless their one path exists when they look
fetches(msg, files) ==
    IF msg.msg_type = "Image"
    THEN retriable_open_file(ImageCandidates, OpenRetry, files).ok
    ELSE /\ "base" \in files[1]
         /\ retriable_open_file(OtherCandidates, OpenRetry, files).ok

\* one line handed to handle_wechat_callback
TrState(pc, msg, files, res) == [pc |-> pc, msg |-> msg, files |-> files, res |-> res]

Translate ==
    /\ tr.pc = "line"
    /\ tr' = TrState("done", tr.msg, tr.files,
                     handle_wechat_callback(pid_instance_map, tr.msg,
                                            fetches(tr.msg, tr.files)))
    /\ UNCHANGED <<dispatcher, sm, ws, ch, cb, pl, side>>

\* ------------------------------------------- the lines of a connection in order
\* the connections, and the lines each of them sends
PlConns == {1, 2}
MaxPlFrames == 2

\* one `process`: whether its loop runs, the lines it has read, and the line
\* inside handle_wechat_callback with the probe rounds its fetch has slept
PlConn(open, read, cur) == [open |-> open, read |-> read, cur |-> cur]
Idle == [k \in {} |-> 0]

\* `queue` is what write_to_ws was handed, in the order of the calls: connection,
\* line number on it, whether its fetch slept
PlState(plconns, queue) == [pc |-> "serving", conns |-> plconns, queue |-> queue]
InitPl == PlState([c \in PlConns |-> PlConn(TRUE, 0, Idle)], <<>>)

\* lines.next() is awaited only after handle_wechat_callback has returned
may_read_always(conn) == conn.open

may_read(conn) == conn.open /\ conn.cur = Idle

PlReadLine(c) ==
    /\ pl.pc = "serving"
    /\ may_read(pl.conns[c])
    /\ pl.conns[c].read < MaxPlFrames
    /\ LET k == pl.conns[c].read + 1
       IN pl' = [pl EXCEPT !.conns[c].read = k,
                           !.conns[c].cur = Put(pl.conns[c].cur, k, 0)]
    /\ UNCHANGED <<dispatcher, sm, ws, ch, cb, tr, side>>

\* retriable_open_file finds no name in this round and sleeps
PlProbeSleeps(c, k) ==
    /\ pl.pc = "serving"
    /\ k \in DOMAIN pl.conns[c].cur
    /\ pl.conns[c].cur[k] < OpenRetry
    /\ pl' = [pl EXCEPT !.conns[c].cur[k] = @ + 1]
    /\ UNCHANGED <<dispatcher, sm, ws, ch, cb, tr, side>>

\* handle_wechat_callback reaches write_event_resp and returns Ok
PlEmits(c, k) ==
    /\ pl.pc = "serving"
    /\ k \in DOMAIN pl.conns[c].cur
    /\ pl' = [pl EXCEPT !.conns[c].cur = Del(pl.conns[c].cur, k),
                        !.queue = Append(@, <<c, k, pl.conns[c].cur[k] > 0>>)]
    /\ UNCHANGED <<dispatcher, sm, ws, ch, cb, tr, side>>

\* handle_wechat_callback returns Ok without an event (a dropped line)
PlDrops(c, k) ==
    /\ pl.pc = "serving"
    /\ k \in DOMAIN pl.conns[c].cur
    /\ pl.conns[c].cur[k] = 0
    /\ pl' = [pl EXCEPT !.conns[c].cur = Del(pl.conns[c].cur, k)]
    /\ UNCHANGED <<dispatcher, sm, ws, ch, cb, tr, side>>

\* handle_wechat_callback returns Err: err_cnt is over the budget, process bails
PlFails(c, k) ==
    /\ pl.pc = "serving"
    /\ k \in DOMAIN pl.conns[c].cur
    /\ pl.conns[c].cur[k] = 0
    /\ pl' = [pl EXCEPT !.conns[c].cur = Del(pl.conns[c].cur, k),
                        !.conns[c].open = FALSE]
    /\ UNCHANGED <<dispatcher, sm, ws, ch, cb, tr, side>>

\* ----------------------------------------------------- the callback server
\* connections the listener accepts, and lines read over all of them
CbConnIds == {1, 2}
MaxLines == 2
MAX_WECHAT_CALLBACK_FAIL_COUNT == 0

\* one spawned `process`: where it is, its err_cnt, and (for the properties) the
\* number of lines of its stream that did not decode
CbConn(state, err_cnt, bad) == [state |-> state, err_cnt |-> err_cnt, bad |-> bad]
NoConn == CbConn("none", 0, 0)

\* the line the server read last: its connection, what became of it, and what
\* handle_wechat_callback returned for it
CbLast(conn, kind, res) == [conn |-> conn, kind |-> kind, res |-> res]
NoCbLast == CbLast(0, "none", Handled(<<>>))

CbState(pc, cbconns, lines, cblast) ==
    [pc |-> pc, conns |-> cbconns, lines |-> lines, last |-> cblast]
InitCbState == CbState("accepting", [c \in CbConnIds |-> NoConn], 0, NoCbLast)

\* the session the callback lines of the runs belong to
CbRegistry == [p \in {RegisteredPid} |-> WechatInstance(RegisteredPid, MsgHookPort + 1, "@a:hs")]
CbOwners == [m \in {"@a:hs"} |-> RegisteredPid]

Accepted == {c \in CbConnIds : cb.conns[c].state # "none"}
OpenConns == {c \in CbConnIds : cb.conns[c].state = "open"}

\* each accepted stream gets a task of its own, with its own `lines` and err_cnt
spawned_shares_fate(cbconns, c, conn) ==
    [k \in DOMAIN cbconns |->
        IF k = c THEN conn
        ELSE IF cbconns[k].state = "open" THEN [cbconns[k] EXCEPT !.state = conn.state]
        ELSE cbconns[k]]

spawned(cbconns, c, conn) == [cbconns EXCEPT ![c] = conn]

\* listener.accept() returns a stream and `process` is spawned on it
Accept ==
    /\ cb.pc = "accepting"
    /\ Cardinality(Accepted) < Cardinality(CbConnIds)
    /\ LET c == Cardinality(Accepted) + 1
       IN cb' = [cb EXCEPT !.conns = spawned(cb.conns, c, CbConn("open", 0, 0))]
    /\ UNCHANGED <<dispatcher, sm, ws, ch, tr, pl, side>>

\* listener.accept() returns an error: the unwrap panics the server task
AcceptFails ==
    /\ cb.pc = "accepting"
    /\ cb' = [cb EXCEPT !.pc = "panicked"]
    /\ UNCHANGED <<dispatcher, sm, ws, ch, tr, pl, side>>

\* the line is not a WechatMessage: logged, `continue`
undecodable_counts(conn) ==
    [conn EXCEPT !.bad = @ + 1, !.err_cnt = @ + 1, !.state = "bailed"]

undecodable(conn) == [conn EXCEPT !.bad = @ + 1]

LineUndecodable(c) ==
    /\ cb.pc = "accepting"
    /\ c \in OpenConns
    /\ cb.lines < MaxLines
    /\ cb' = [cb EXCEPT !.conns = spawned(cb.conns, c, undecodable(cb.conns[c])),
                        !.lines = @ + 1,
                        !.last = CbLast(c, "undecodable", Handled(<<>>))]
    /\ UNCHANGED <<dispatcher, sm, ws, ch, tr, pl, side>>

\* the codec returns an error for the line: logged, the loop goes on
LineError(c) ==
    /\ cb.pc = "accepting"
    /\ c \in OpenConns
    /\ cb.lines < MaxLines
    /\ cb' = [cb EXCEPT !.lines = @ + 1,
                        !.last = CbLast(c, "line_error", Handled(<<>>))]
    /\ UNCHANGED <<dispatcher, sm, ws, ch, tr, pl, side>>

\* err_cnt > MAX_WECHAT_CALLBACK_FAIL_COUNT
exceeds_budget_never(err_cnt) == FALSE

exceeds_budget(err_cnt) == err_cnt > MAX_WECHAT_CALLBACK_FAIL_COUNT

\* a handler that counts no failure and goes on reading
handled_uncounted(conn, res) == conn

\* the line decodes and handle_wechat_callback runs on it; an Err is counted and
\* `process` bails once the count is over the budget
handled(conn, res) ==
    LET err_cnt == IF res.ok THEN conn.err_cnt ELSE conn.err_cnt + 1
    IN [conn EXCEPT !.err_cnt = err_cnt,
                    !.state = IF exceeds_budget(err_cnt) THEN "bailed" ELSE "open"]

HandleLine(c, msg, fetched) ==
    /\ cb.pc = "accepting"
    /\ c \in OpenConns
    /\ cb.lines < MaxLines
    /\ LET res == handle_wechat_callback(pid_instance_map, msg, fetched)
       IN cb' = [cb EXCEPT !.conns = spawned(cb.conns, c, handled(cb.conns[c], res)),
                           !.lines = @ + 1,
                           !.last = CbLast(c, "handled", res)]
    /\ UNCHANGED <<dispatcher, sm, ws, ch, tr, pl, side>>

\* lines.next() returns None: `process` returns Ok
StreamEnds(c) ==
    /\ cb.pc = "accepting"
    /\ c \in OpenConns
    /\ cb' = [cb EXCEPT !.conns = spawned(cb.conns, c, [cb.conns[c] EXCEPT !.state = "ended"])]
    /\ UNCHANGED <<dispatcher, sm, ws, ch, tr, pl, side>>

\* ------------------------------------------------------------------- Init
Init ==
    /\ pid_instance_map = EmptyMap
    /\ mxid_pid_map = EmptyMap
    /\ wechat_listen_port = MsgHookPort + 1
    /\ next_pid = 1
    /\ inflight = {}
    /\ last = NoLast
    /\ last_fail = 0
    /\ nframes = 0
    /\ conns = 0
    /\ reading = FALSE
    /\ stream_open = FALSE
    /\ writer_up = FALSE
    /\ receivers = 0
    /\ sm = NoSend
    /\ ws = NoWs
    /\ ch = NoCh
    /\ cb = NoCb
    /\ tr = NoTr
    /\ pl = NoPl
    /\ exited = {}
    /\ op = NoOp
    /\ lk = NoLk

\* ------------------------------------------------------------ the read loop
\* for_each_concurrent pulls the next frame while fewer than its limit are in flight
CanReceive ==
    /\ reading
    /\ stream_open
    /\ nframes < MaxFrames
    /\ Cardinality(inflight) < MaxInflight

\* C5 variant: the undecodable frame ends the read loop
RecvUndecodable_aborts ==
    /\ CanReceive
    /\ nframes' = nframes + 1
    /\ last_fail' = nframes + 1
    /\ stream_open' = FALSE
    /\ UNCHANGED <<registry, wechat_listen_port, next_pid, inflight, last, conns,
                   reading, writer_up, receivers, sm, ws, ch, cb, tr, pl, side>>

\* recv_message: the frame is no text or no WebsocketMatrixRequest; logged, dropped
RecvUndecodable ==
    /\ CanReceive
    /\ nframes' = nframes + 1
    /\ last_fail' = nframes + 1
    /\ UNCHANGED <<registry, wechat_listen_port, next_pid, inflight, last, transport, sm, ws, ch, cb, tr, pl, side>>

\* CommandType::Connect up to `ins.hook_wechat_message(..).await`
\* a counter that hands the same value out again
fetch_add_stuck(port) == port

\* AtomicU32::fetch_add(1, SeqCst): the counter after the call, which returns
\* the value before it; the counter starts at a TCP port plus one, 2^32 launches
\* short of wrapping
fetch_add(port) == port + 1

Connect(mxid) ==
    /\ CanReceive
    /\ nframes' = nframes + 1
    /\ LET msg == Msg(nframes + 1, mxid, "connect", NoData)
           found == get_instance_by_mxid(pid_instance_map, mxid_pid_map, mxid)
       IN IF found.ok
          THEN /\ inflight' = inflight \cup {Task(msg, "hook", found.val)}
               /\ UNCHANGED <<wechat_listen_port, next_pid, last, last_fail>>
          ELSE \E launch \in {"ok", "load_failed", "listen_failed"} :
                 /\ wechat_listen_port' = fetch_add(wechat_listen_port)
                 /\ next_pid' = IF launch = "load_failed" THEN next_pid ELSE next_pid + 1
                 /\ IF launch = "ok"
                    THEN /\ inflight' = inflight \cup
                              {Task(msg, "hook",
                                    WechatInstance(next_pid, wechat_listen_port, mxid))}
                         /\ UNCHANGED <<last, last_fail>>
                    ELSE /\ Complete(msg, "",
                                     Fail(IF launch = "load_failed" THEN ErrLoadLibrary
                                          ELSE ErrStartListen),
                                     nframes + 1)
                         /\ UNCHANGED inflight
    /\ UNCHANGED <<registry, transport, sm, ws, ch, cb, tr, pl, side>>

\* CommandType::Connect from the return of hook_wechat_message to the end
HookReturns(t, hooked) ==
    /\ reading
    /\ t \in inflight
    /\ t.pc = "hook"
    /\ inflight' = inflight \ {t}
    /\ IF hooked
       THEN LET stored == store_instance(pid_instance_map, mxid_pid_map, t.mxid, t.ins)
            IN /\ pid_instance_map' = stored.db
               /\ mxid_pid_map' = stored.mxid_map
               /\ Complete(MsgOf(t), "ok",
                           Done(write_command_resp(t.mxid, t.req, "None", receivers)),
                           nframes)
       ELSE /\ Complete(MsgOf(t), "fail", Fail(ErrUpstream), nframes)
            /\ UNCHANGED registry
    /\ UNCHANGED <<wechat_listen_port, next_pid, nframes, transport, sm, ws, ch, cb, tr, pl, side>>

\* CommandType::Disconnect
Disconnect(mxid) ==
    /\ CanReceive
    /\ nframes' = nframes + 1
    /\ LET msg == Msg(nframes + 1, mxid, "disconnect", NoData)
           dropped == drop_instance(pid_instance_map, mxid_pid_map, mxid)
       IN /\ pid_instance_map' = dropped.db
          /\ mxid_pid_map' = dropped.mxid_map
          /\ Complete(msg, "",
                      IF dropped.ok
                      THEN Done(write_command_resp(mxid, msg.req, "None", receivers))
                      ELSE Fail(dropped.err),
                      nframes + 1)
    /\ UNCHANGED <<wechat_listen_port, next_pid, inflight, transport, sm, ws, ch, cb, tr, pl, side>>


\* the head without the lookup: the arm calls whatever session it is handed
call_head_skips_lookup(db, mxid_map, msg) == Ok(NoInstance)

\* the synchronous head of the arms that call the session once: the data match,
\* then get_instance_by_mxid, then (send_message) the kind/data match
call_head(db, mxid_map, msg) ==
    IF msg.command \in QueryCommands /\ msg.data.tag # "Query" THEN Err(ErrDeserialize)
    ELSE IF msg.command = "send_message" /\ msg.data.tag # "Message"
    THEN Err(ErrDeserialize)
    ELSE LET found == get_instance_by_mxid(db, mxid_map, msg.mxid)
         IN IF ~found.ok THEN found
            ELSE IF msg.command = "send_message"
                      /\ send_message_arm(msg.data.message_type, msg.data.payload)
                             = "mismatch"
            THEN Err(ErrMismatch)
            ELSE found

\* LoginWithQRCode, IsLogin, GetSelf, GetUserInfo, GetGroupInfo, GetGroupMembers,
\* GetGroupMemberNickname, GetFriendList, GetGroupList, SendMessage up to the
\* .await of the session's call
Call(mxid, rq) ==
    /\ CanReceive
    /\ rq.command \in CallCommands
    /\ nframes' = nframes + 1
    /\ LET msg == Msg(nframes + 1, mxid, rq.command, rq.data)
           head == call_head(pid_instance_map, mxid_pid_map, msg)
       IN IF head.ok
          THEN /\ inflight' = inflight \cup {Task(msg, "call", head.val)}
               /\ UNCHANGED <<last, last_fail>>
          ELSE /\ Complete(msg, "", Fail(head.err), nframes + 1)
               /\ UNCHANGED inflight
    /\ UNCHANGED <<registry, wechat_listen_port, next_pid, transport, sm, ws, ch, cb, tr, pl, side>>

\* C8 variant: is_login propagates the failure of its query like the other arms
call_tail_propagates(command, res) ==
    IF res = "fail" THEN Err(ErrUpstream)
    ELSE IF command = "is_login"
    THEN Ok(IF res = "true" THEN "status:true" ELSE "status:false")
    ELSE Ok("payload")

\* the value an arm replies with once the session's call has returned `res`
call_tail(command, res) ==
    IF command = "is_login"
    THEN Ok(IF res = "true" THEN "status:true" ELSE "status:false")
    ELSE IF res = "fail" THEN Err(ErrUpstream)
    ELSE Ok("payload")

\* what the session's call can return: is_login's Ok(true), Ok(false) or Err;
\* the other calls' Ok or Err
CallResults(command) ==
    IF command = "is_login" THEN {"true", "false", "fail"} ELSE {"ok", "fail"}

\* the same arms from the return of the session's call to the end
CallReturns(t, res) ==
    /\ reading
    /\ t \in inflight
    /\ t.pc = "call"
    /\ res \in CallResults(t.command)
    /\ inflight' = inflight \ {t}
    /\ LET tail == call_tail(t.command, res)
       IN Complete(MsgOf(t), res,
                   IF tail.ok
                   THEN Done(write_command_resp(t.mxid, t.req, tail.val, receivers))
                   ELSE Fail(tail.err),
                   nframes)
    /\ UNCHANGED <<registry, wechat_listen_port, next_pid, nframes, transport, sm, ws, ch, cb, tr, pl, side>>

\* Response, Error, Ping, WebsocketClosed: the final `_ => bail!` arm
Unsupported(mxid, command) ==
    /\ CanReceive
    /\ command \in UnsupportedCommands
    /\ nframes' = nframes + 1
    /\ Complete(Msg(nframes + 1, mxid, command, NoData), "", Fail(ErrDeserialize),
                nframes + 1)
    /\ UNCHANGED <<registry, wechat_listen_port, next_pid, inflight, transport, sm, ws, ch, cb, tr, pl, side>>

\* ------------------------------------------------------------ the transport
\* main's loop calls connect_ws with a fresh subscription; the handshake succeeds
\* and write_message is spawned
ConnectWs ==
    /\ ~reading
    /\ conns < MaxConns
    /\ conns' = conns + 1
    /\ reading' = TRUE
    /\ stream_open' = TRUE
    /\ writer_up' = TRUE
    /\ receivers' = receivers + 1
    /\ last_fail' = 0
    /\ UNCHANGED <<registry, wechat_listen_port, next_pid, inflight, last, nframes, sm, ws, ch, cb, tr, pl, side>>

\* write_message returns (the transmit failed on a severed connection, or
\* rx.recv() returned Err): its Receiver is dropped
WriterExit ==
    /\ writer_up
    /\ writer_up' = FALSE
    /\ receivers' = receivers - 1
    /\ UNCHANGED <<registry, wechat_listen_port, next_pid, inflight, last, last_fail,
                   nframes, conns, reading, stream_open, sm, ws, ch, cb, tr, pl, side>>

\* a write_message task of an earlier connection returns
StaleWriterExit ==
    /\ receivers > (IF writer_up THEN 1 ELSE 0)
    /\ receivers' = receivers - 1
    /\ UNCHANGED <<registry, wechat_listen_port, next_pid, inflight, last, last_fail,
                   nframes, conns, reading, stream_open, writer_up, sm, ws, ch, cb, tr, pl, side>>

\* the reader stream yields None
StreamEnd ==
    /\ reading
    /\ stream_open
    /\ stream_open' = FALSE
    /\ UNCHANGED <<registry, wechat_listen_port, next_pid, inflight, last, last_fail,
                   nframes, conns, reading, writer_up, receivers, sm, ws, ch, cb, tr, pl, side>>

\* future::select(read_message, write_message) completes and connect_ws returns:
\* read_message is dropped with the handlers it still holds; a write_message task
\* that is still running is detached, not aborted
ConnectWsReturn ==
    /\ reading
    /\ \/ ~stream_open /\ inflight = {}
       \/ ~writer_up
    /\ reading' = FALSE
    /\ stream_open' = FALSE
    /\ writer_up' = FALSE
    /\ inflight' = {}
    /\ UNCHANGED <<registry, wechat_listen_port, next_pid, last, last_fail, nframes,
                   conns, receivers, sm, ws, ch, cb, tr, pl, side>>

Next ==
    \/ RecvUndecodable
    \/ \E mxid \in Owners : Connect(mxid)
    \/ \E t \in inflight, hooked \in BOOLEAN : HookReturns(t, hooked)
    \/ \E mxid \in Owners : Disconnect(mxid)
    \/ \E mxid \in Owners, rq \in Requests : Call(mxid, rq)
    \/ \E t \in inflight, res \in {"true", "false", "ok", "fail"} : CallReturns(t, res)
    \/ \E mxid \in Owners, command \in UnsupportedCommands : Unsupported(mxid, command)
    \/ ConnectWs
    \/ WriterExit
    \/ StaleWriterExit
    \/ StreamEnd
    \/ ConnectWsReturn

Spec == Init /\ [][Next]_vars

\* the dispatcher on an established connection, with a session registered for
\* one owner
InitRegistered ==
    /\ pid_instance_map = CbRegistry
    /\ mxid_pid_map = CbOwners
    /\ wechat_listen_port = MsgHookPort + 2
    /\ next_pid = RegisteredPid + 1
    /\ inflight = {}
    /\ last = NoLast
    /\ last_fail = 0
    /\ nframes = 0
    /\ conns = 1
    /\ reading = TRUE
    /\ stream_open = TRUE
    /\ writer_up = TRUE
    /\ receivers = 1
    /\ sm = NoSend
    /\ ws = NoWs
    /\ ch = NoCh
    /\ cb = NoCb
    /\ tr = NoTr
    /\ pl = NoPl
    /\ exited = {}
    /\ op = NoOp
    /\ lk = NoLk

NextRegistered ==
    \/ RecvUndecodable
    \/ \E mxid \in Owners : Connect(mxid)
    \/ \E t \in inflight, hooked \in BOOLEAN : HookReturns(t, hooked)
    \/ \E mxid \in Owners : Disconnect(mxid)
    \/ \E mxid \in Owners, rq \in Requests : Call(mxid, rq)
    \/ \E t \in inflight, res \in {"true", "false", "ok", "fail"} : CallReturns(t, res)
    \/ \E mxid \in Owners, command \in UnsupportedCommands : Unsupported(mxid, command)

SpecRegistered == InitRegistered /\ [][NextRegistered]_vars

\* one call of send_message on every kind of message and data
InitSend ==
    /\ pid_instance_map = EmptyMap
    /\ mxid_pid_map = EmptyMap
    /\ wechat_listen_port = MsgHookPort + 1
    /\ next_pid = 1
    /\ inflight = {}
    /\ last = NoLast
    /\ last_fail = 0
    /\ nframes = 0
    /\ conns = 0
    /\ reading = FALSE
    /\ stream_open = FALSE
    /\ writer_up = FALSE
    /\ receivers = 0
    /\ \E msg \in SendInputs : sm = SendState(msg, "start", "", NoPath, <<>>, <<>>, "")
    /\ ws = NoWs
    /\ ch = NoCh
    /\ cb = NoCb
    /\ tr = NoTr
    /\ pl = NoPl
    /\ exited = {}
    /\ op = NoOp
    /\ lk = NoLk

NextSend ==
    \/ SendMessageStart
    \/ \E fetched \in BOOLEAN : FetchReturns(fetched)
    \/ \E created \in BOOLEAN : CreateReturns(created)
    \/ \E written \in BOOLEAN : WriteReturns(written)
    \/ \E posted \in BOOLEAN : PostReturns(posted)

SpecSend == InitSend /\ [][NextSend]_vars


InitWsLoop ==
    /\ pid_instance_map = EmptyMap
    /\ mxid_pid_map = EmptyMap
    /\ wechat_listen_port = MsgHookPort + 1
    /\ next_pid = 1
    /\ inflight = {}
    /\ last = NoLast
    /\ last_fail = 0
    /\ nframes = 0
    /\ conns = 0
    /\ reading = FALSE
    /\ stream_open = FALSE
    /\ writer_up = FALSE
    /\ receivers = 0
    /\ sm = NoSend
    /\ ws = InitWs
    /\ ch = NoCh
    /\ cb = NoCb
    /\ tr = NoTr
    /\ pl = NoPl
    /\ exited = {}
    /\ op = NoOp
    /\ lk = NoLk

NextWs ==
    \/ LoopHandshakeOk
    \/ LoopHandshakeFails
    \/ LoopConnectionEnds
    \/ LoopSleepReturns
    \/ Tick

\* tokio's timer fires: a sleep returns
SpecWs == InitWsLoop /\ [][NextWs]_vars /\ WF_vars(LoopSleepReturns)

InitChan ==
    /\ pid_instance_map = EmptyMap
    /\ mxid_pid_map = EmptyMap
    /\ wechat_listen_port = MsgHookPort + 1
    /\ next_pid = 1
    /\ inflight = {}
    /\ last = NoLast
    /\ last_fail = 0
    /\ nframes = 0
    /\ conns = 0
    /\ reading = FALSE
    /\ stream_open = FALSE
    /\ writer_up = FALSE
    /\ receivers = 0
    /\ sm = NoSend
    /\ ws = NoWs
    /\ ch = InitCh
    /\ cb = NoCb
    /\ tr = NoTr
    /\ pl = NoPl
    /\ exited = {}
    /\ op = NoOp
    /\ lk = NoLk

NextChan ==
    \/ ChanSend
    \/ ChanHandshakeOk
    \/ ChanHandshakeFails
    \/ \E c \in 1..MaxChanConns : Sever(c)
    \/ \E c \in 1..MaxChanConns, res \in {"ok", "error", "severed", "lagged"} :
          WriterStep(c, res)
    \/ ChanReaderEnds
    \/ ChanWriterEnded
    \/ ChanSleepReturns

SpecChan == InitChan /\ [][NextChan]_vars

\* the callback server with one registered session
InitCb ==
    /\ pid_instance_map = CbRegistry
    /\ mxid_pid_map = CbOwners
    /\ wechat_listen_port = MsgHookPort + 2
    /\ next_pid = RegisteredPid + 1
    /\ inflight = {}
    /\ last = NoLast
    /\ last_fail = 0
    /\ nframes = 0
    /\ conns = 0
    /\ reading = FALSE
    /\ stream_open = FALSE
    /\ writer_up = FALSE
    /\ receivers = 0
    /\ sm = NoSend
    /\ ws = NoWs
    /\ ch = NoCh
    /\ cb = InitCbState
    /\ tr = NoTr
    /\ pl = NoPl
    /\ exited = {}
    /\ op = NoOp
    /\ lk = NoLk

NextCb ==
    \/ Accept
    \/ AcceptFails
    \/ \E c \in CbConnIds : LineUndecodable(c)
    \/ \E c \in CbConnIds : LineError(c)
    \/ \E c \in CbConnIds, msg \in WechatMessages, fetched \in BOOLEAN :
            HandleLine(c, msg, fetched)
    \/ \E c \in CbConnIds : StreamEnds(c)

SpecCb == InitCb /\ [][NextCb]_vars

\* one callback line of every kind, with the files in every world
InitTr ==
    /\ pid_instance_map = CbRegistry
    /\ mxid_pid_map = CbOwners
    /\ wechat_listen_port = MsgHookPort + 2
    /\ next_pid = RegisteredPid + 1
    /\ inflight = {}
    /\ last = NoLast
    /\ last_fail = 0
    /\ nframes = 0
    /\ conns = 0
    /\ reading = FALSE
    /\ stream_open = FALSE
    /\ writer_up = FALSE
    /\ receivers = 0
    /\ sm = NoSend
    /\ ws = NoWs
    /\ ch = NoCh
    /\ cb = NoCb
    /\ \E msg \in WechatMessages, files \in FileWorlds :
          tr = TrState("line", msg, files, Handled(<<>>))
    /\ pl = NoPl
    /\ exited = {}
    /\ op = NoOp
    /\ lk = NoLk

NextTr == Translate

\* the callback connections, each with its lines
InitPipeline ==
    /\ pid_instance_map = CbRegistry
    /\ mxid_pid_map = CbOwners
    /\ wechat_listen_port = MsgHookPort + 2
    /\ next_pid = RegisteredPid + 1
    /\ inflight = {}
    /\ last = NoLast
    /\ last_fail = 0
    /\ nframes = 0
    /\ conns = 0
    /\ reading = FALSE
    /\ stream_open = FALSE
    /\ writer_up = FALSE
    /\ receivers = 0
    /\ sm = NoSend
    /\ ws = NoWs
    /\ ch = NoCh
    /\ cb = NoCb
    /\ tr = NoTr
    /\ pl = InitPl
    /\ exited = {}
    /\ op = NoOp
    /\ lk = NoLk

NextPl ==
    \/ \E c \in PlConns : PlReadLine(c)
    \/ \E c \in PlConns, k \in 1..MaxPlFrames : PlProbeSleeps(c, k)
    \/ \E c \in PlConns, k \in 1..MaxPlFrames : PlEmits(c, k)
    \/ \E c \in PlConns, k \in 1..MaxPlFrames : PlDrops(c, k)
    \/ \E c \in PlConns, k \in 1..MaxPlFrames : PlFails(c, k)

SpecPl == InitPipeline /\ [][NextPl]_vars

SpecTr == InitTr /\ [][NextTr]_vars

\* ------------------------------------------ the native client's process ends
\* the process of a stored session stops running: WechatInstance::is_alive would
\* answer false from now on
ClientExits(pid) ==
    /\ pid \in DOMAIN pid_instance_map
    /\ pid \notin exited
    /\ exited' = exited \cup {pid}
    /\ UNCHANGED <<dispatcher, sm, ws, ch, cb, tr, pl, op, lk>>

\* what the agent does by itself: the awaits of its handlers return
HandlersReturn ==
    \/ \E t \in inflight, hooked \in BOOLEAN : HookReturns(t, hooked)
    \/ \E t \in inflight, res \in {"true", "false", "ok", "fail"} : CallReturns(t, res)

NextExit ==
    \/ NextRegistered
    \/ \E pid \in DOMAIN pid_instance_map : ClientExits(pid)

\* the dispatcher on an established connection, with clients that may exit
SpecExit == InitRegistered /\ [][NextExit]_vars /\ WF_vars(HandlersReturn)

\* --------------------------------------------- retriable_open_file, by steps
\* the greatest retry_time a call is given
MaxRetry == 3

\* the sequences of candidate paths a call is given
CandidateSeqs == {<<>>, OtherCandidates, <<"png", "base">>, ImageCandidates}

\* one call: the position in its two loops, its delay, the paths that exist,
\* the File::open calls it made and the delays it slept
OpState(pc, filename_seq, retry_time, round, i, wait, present, probes, slept, res) ==
    [pc |-> pc, filename_seq |-> filename_seq, retry_time |-> retry_time,
     round |-> round, i |-> i, wait |-> wait, present |-> present,
     probes |-> probes, slept |-> slept, res |-> res]

\* a delay that stays what it is
next_wait_same(wait) == wait

\* wait *= 2
next_wait(wait) == wait * 2

\* File::open(filename).await of the inner loop
OpenProbe ==
    /\ op.pc = "probe"
    /\ op.round <= op.retry_time
    /\ op.i <= Len(op.filename_seq)
    /\ LET filename == op.filename_seq[op.i]
           opened == filename \in op.present
       IN op' = [op EXCEPT
                   !.probes = Append(@, [name |-> filename, opened |-> opened]),
                   !.i = @ + 1,
                   !.pc = IF opened THEN "returned" ELSE @,
                   !.res = IF opened THEN Ok(filename) ELSE @]
    /\ UNCHANGED <<dispatcher, sm, ws, ch, cb, tr, pl, exited, lk>>

\* no path of the round opened: warn, sleep(wait).await, wait *= 2
RoundFails ==
    /\ op.pc = "probe"
    /\ op.round <= op.retry_time
    /\ op.i > Len(op.filename_seq)
    /\ op' = [op EXCEPT !.slept = Append(@, op.wait),
                        !.wait = next_wait(@),
                        !.round = @ + 1,
                        !.i = 1]
    /\ UNCHANGED <<dispatcher, sm, ws, ch, cb, tr, pl, exited, lk>>

\* the outer loop is over: bail!
OpenBails ==
    /\ op.pc = "probe"
    /\ op.round > op.retry_time
    /\ op' = [op EXCEPT !.pc = "returned", !.res = Err(ErrNoFile)]
    /\ UNCHANGED <<dispatcher, sm, ws, ch, cb, tr, pl, exited, lk>>

\* the hook finishes writing a file while the call is under way
FileWritten(filename) ==
    /\ op.pc = "probe"
    /\ filename \notin op.present
    /\ op' = [op EXCEPT !.present = @ \cup {filename}]
    /\ UNCHANGED <<dispatcher, sm, ws, ch, cb, tr, pl, exited, lk>>

OpenSteps == OpenProbe \/ RoundFails \/ OpenBails

NextOpen ==
    \/ OpenProbe
    \/ RoundFails
    \/ OpenBails
    \/ \E filename \in {"base", "png", "gif", "jpg"} : FileWritten(filename)

InitOpen ==
    /\ pid_instance_map = EmptyMap
    /\ mxid_pid_map = EmptyMap
    /\ wechat_listen_port = MsgHookPort + 1
    /\ next_pid = 1
    /\ inflight = {}
    /\ last = NoLast
    /\ last_fail = 0
    /\ nframes = 0
    /\ conns = 0
    /\ reading = FALSE
    /\ stream_open = FALSE
    /\ writer_up = FALSE
    /\ receivers = 0
    /\ sm = NoSend
    /\ ws = NoWs
    /\ ch = NoCh
    /\ cb = NoCb
    /\ tr = NoTr
    /\ pl = NoPl
    /\ exited = {}
    /\ \E filename_seq \in CandidateSeqs, retry_time \in 0..MaxRetry,
          present \in {{}, {"jpg"}} :
          op = OpState("probe", filename_seq, retry_time, 1, 1, 1, present, <<>>, <<>>,
                       Err(""))
    /\ lk = NoLk

\* one call of retriable_open_file; its own steps are taken, the hook's need not be
SpecOpen == InitOpen /\ [][NextOpen]_vars /\ WF_vars(OpenSteps)

\* ------------------------------------------------- the two registry mutexes
\* tasks that call the registry at the same time, on the worker threads
LockTasks == {1, 2, 3}
RegistryFns ==
    {"get_instance_by_pid", "get_instance_by_mxid", "store_instance", "drop_instance"}

\* the owner of each Mutex (0: unlocked) and where each task is in its call
LkState(owner, tasks) == [pc |-> "calls", owner |-> owner, tasks |-> tasks]
LkTask(fn, pc) == [fn |-> fn, pc |-> pc]
LkIdle == LkTask("", "idle")
InitLk ==
    LkState([m \in {"pid_instance_map", "mxid_pid_map"} |-> 0],
            [t \in LockTasks |-> LkIdle])

\* the Mutex a function locks first, and the one it locks while it holds the first
first_lock(fn) ==
    IF fn = "get_instance_by_mxid" THEN "mxid_pid_map" ELSE "pid_instance_map"
second_lock(fn) ==
    IF fn = "get_instance_by_mxid" THEN "pid_instance_map" ELSE "mxid_pid_map"

\* the Mutex a task is about to lock, "" when it is not at a lock()
wants(task) ==
    CASE task.pc = "lock_first" -> first_lock(task.fn)
      [] task.pc = "lock_second" -> second_lock(task.fn)
      [] OTHER -> ""

\* a task enters one of the four functions
LockCall(t, fn) ==
    /\ lk.tasks[t].pc = "idle"
    /\ lk' = [lk EXCEPT !.tasks[t] = LkTask(fn, "lock_first")]
    /\ UNCHANGED <<dispatcher, sm, ws, ch, cb, tr, pl, exited, op>>

\* self.<map>.lock() returns: the first of the function, or the second; `found`
\* is whether get_instance_by_mxid found the owner and goes on to the other map
LockReturns(t, found) ==
    /\ wants(lk.tasks[t]) # ""
    /\ lk.owner[wants(lk.tasks[t])] = 0
    /\ LET task == lk.tasks[t]
           last_lock ==
               \/ task.pc = "lock_second"
               \/ task.fn = "get_instance_by_pid"
               \/ task.fn = "get_instance_by_mxid" /\ ~found
       IN lk' = [lk EXCEPT !.owner[wants(task)] = t,
                           !.tasks[t].pc = IF last_lock THEN "locked" ELSE "lock_second"]
    /\ UNCHANGED <<dispatcher, sm, ws, ch, cb, tr, pl, exited, op>>

\* the function returns and its guards are dropped
LockedReturns(t) ==
    /\ lk.tasks[t].pc = "locked"
    /\ lk' = [lk EXCEPT !.owner = [m \in DOMAIN @ |-> IF @[m] = t THEN 0 ELSE @[m]],
                        !.tasks[t] = LkIdle]
    /\ UNCHANGED <<dispatcher, sm, ws, ch, cb, tr, pl, exited, op>>

NextLocks ==
    \/ \E t \in LockTasks, fn \in RegistryFns : LockCall(t, fn)
    \/ \E t \in LockTasks, found \in BOOLEAN : LockReturns(t, found)
    \/ \E t \in LockTasks : LockedReturns(t)

InitLocks ==
    /\ pid_instance_map = EmptyMap
    /\ mxid_pid_map = EmptyMap
    /\ wechat_listen_port = MsgHookPort + 1
    /\ next_pid = 1
    /\ inflight = {}
    /\ last = NoLast
    /\ last_fail = 0
    /\ nframes = 0
    /\ conns = 0
    /\ reading = FALSE
    /\ stream_open = FALSE
    /\ writer_up = FALSE
    /\ receivers = 0
    /\ sm = NoSend
    /\ ws = NoWs
    /\ ch = NoCh
    /\ cb = NoCb
    /\ tr = NoTr
    /\ pl = NoPl
    /\ exited = {}
    /\ op = NoOp
    /\ lk = InitLk

\* tasks calling the registry concurrently
SpecLocks == InitLocks /\ [][NextLocks]_vars

\* -------------------------------------------------------------- properties
TypeOK ==
    /\ DOMAIN mxid_pid_map \subseteq Owners
    /\ \A t \in inflight : t.pc \in {"hook", "call"} /\ t.req \in 1..nframes
    /\ Cardinality(inflight) <= MaxInflight
    /\ nframes \in 0..MaxFrames
    /\ receivers \in 0..conns
    /\ writer_up => reading

\* C1: in every reachable state the two indexes of the registry agree: a pid is a
\* key of pid_instance_map iff some owner of mxid_pid_map maps to it, and the
\* session under that key carries that pid.
C1_IndexesAgree ==
    /\ \A pid \in DOMAIN pid_instance_map :
          /\ \E mxid \in DOMAIN mxid_pid_map : mxid_pid_map[mxid] = pid
          /\ pid_instance_map[pid].pid = pid
    /\ \A mxid \in DOMAIN mxid_pid_map : mxid_pid_map[mxid] \in DOMAIN pid_instance_map

\* the command that completed in this step
Completes == last'.req # last.req

\* C2: once Connect(O) has replied Response, get_instance_by_mxid(O) returns a
\* session and get_instance_by_pid of its pid returns the same session; once
\* Disconnect(O) has replied Response, get_instance_by_mxid(O) fails and so does
\* get_instance_by_pid of the pid O was bound to.
C2_AfterConnect ==
    (last.command = "connect" /\ last.ok /\ last.replies[1].command = "response") =>
        LET byMxid == get_instance_by_mxid(pid_instance_map, mxid_pid_map, last.mxid)
        IN /\ byMxid.ok
           /\ byMxid.val.mxid = last.mxid
           /\ get_instance_by_pid(pid_instance_map, byMxid.val.pid) = byMxid
C2_AfterDisconnect ==
    (Completes /\ last'.command = "disconnect" /\ last'.ok
        /\ last'.replies[1].command = "response") =>
        /\ last'.mxid \in DOMAIN mxid_pid_map
        /\ get_instance_by_mxid(pid_instance_map', mxid_pid_map', last'.mxid)
               = Err(ErrNoPidForMxid)
        /\ get_instance_by_pid(pid_instance_map', mxid_pid_map[last'.mxid])
               = Err(ErrNoInstanceForPid)
C2_LookupsFollowConnectDisconnect == [] C2_AfterConnect /\ [][C2_AfterDisconnect]_vars

\* a Disconnect replied Response to an owner a Connect had registered
C2_Witness ==
    /\ last.command = "disconnect"
    /\ last.ok
    /\ last.replies[1].command = "response"
    /\ next_pid > 1

\* C3: for every decoded command with request id R exactly one reply with req = R
\* reaches the outbound channel, never zero and never two.
C3_ExactlyOneReply ==
    last.req # 0 =>
        Cardinality({i \in DOMAIN last.replies :
                        last.replies[i].req = last.req /\ last.replies[i].queued}) = 1

\* C4: whenever a command's handling fails (owner not registered, data absent or
\* of the wrong shape, control API failure, unsupported kind) its reply is one
\* Error carrying the command's mxid and req and the failure's message, and it has
\* no Response.
C4_FailureBecomesError ==
    last.req # 0 =>
        /\ ~last.ok =>
              /\ last.err # ""
              /\ Len(last.replies) = 1
              /\ last.replies[1].command = "error"
              /\ last.replies[1].mxid = last.mxid
              /\ last.replies[1].req = last.req
              /\ last.replies[1].data = last.err
        /\ last.command \in UnsupportedCommands => ~last.ok /\ last.err = ErrDeserialize
        /\ (last.command \in QueryCommands /\ last.data.tag # "Query") =>
              ~last.ok /\ last.err = ErrDeserialize
        /\ (last.command = "send_message" /\ last.data.tag # "Message") =>
              ~last.ok /\ last.err = ErrDeserialize
        /\ (last.res = "fail" /\ last.command # "is_login") =>
              ~last.ok /\ last.err = ErrUpstream
        /\ (last.command \in CallCommands /\ last.res = "" /\ last.err # ErrDeserialize) =>
              ~last.ok /\ last.err \in {ErrNoPidForMxid, ErrNoInstanceForPid, ErrMismatch}

\* a control API failure became an Error reply
C4_Witness ==
    /\ last.command = "get_self"
    /\ last.res = "fail"
    /\ last.replies[1].command = "error"

\* the step is a failed frame: it cannot be decoded, or its command ends in Err
FailureStep ==
    \/ nframes' = nframes + 1 /\ last' = last /\ inflight' = inflight
    \/ Completes /\ ~last'.ok

\* C5: a failed frame never aborts the read loop: the step leaves the connection,
\* its reader and the other handlers in flight as they were, and while the
\* connection reads, the next frame of any kind is still dispatched and a command
\* received after the failure gets its reply.
C5_LoopSurvives ==
    FailureStep =>
        /\ reading' = reading
        /\ stream_open' = stream_open
        /\ writer_up' = writer_up
        /\ receivers' = receivers
        /\ \A t \in inflight : t.req # last'.req => t \in inflight'
C5_NextIsDispatched ==
    /\ (last_fail > 0 /\ CanReceive) =>
          /\ ENABLED RecvUndecodable
          /\ \A mxid \in Owners :
                /\ ENABLED Connect(mxid)
                /\ ENABLED Disconnect(mxid)
                /\ \A command \in UnsupportedCommands : ENABLED Unsupported(mxid, command)
                /\ \A rq \in Requests :
                      rq.command \in CallCommands => ENABLED Call(mxid, rq)
    /\ (last_fail > 0 /\ last.req > last_fail) => Len(last.replies) = 1
C5_FailureKeepsReading == [] C5_NextIsDispatched /\ [][C5_LoopSurvives]_vars

\* a command received after a failed frame of the same connection was replied to
C5_Witness ==
    /\ last_fail > 0
    /\ last.req > last_fail
    /\ last.ok
    /\ last.replies[1].queued

\* C6: a Connect handled while its owner has a registered session reuses it: no
\* client is launched, no port is allocated, hooking starts on that session, and
\* when the command ends the registry maps the owner to that same pid.
C6_Starts ==
    \A t \in inflight' \ inflight :
        (t.command = "connect" /\ t.mxid \in DOMAIN mxid_pid_map) =>
            /\ next_pid' = next_pid
            /\ wechat_listen_port' = wechat_listen_port
            /\ t.pc = "hook"
            /\ mxid_pid_map[t.mxid] \in DOMAIN pid_instance_map
            /\ t.ins = pid_instance_map[mxid_pid_map[t.mxid]]
C6_Ends ==
    \A t \in inflight \ inflight' :
        (t.command = "connect" /\ last'.req = t.req) =>
            /\ next_pid' = next_pid
            /\ wechat_listen_port' = wechat_listen_port
            /\ last'.ok =>
                  /\ t.mxid \in DOMAIN mxid_pid_map'
                  /\ mxid_pid_map'[t.mxid] = t.ins.pid
                  /\ pid_instance_map'[t.ins.pid] = t.ins
C6_ConnectReusesSession == [][C6_Starts /\ C6_Ends]_vars

\* a Connect is hooking the session its owner is registered with
C6_Witness ==
    \E t \in inflight :
        /\ t.command = "connect"
        /\ t.pc = "hook"
        /\ t.mxid \in DOMAIN mxid_pid_map
        /\ mxid_pid_map[t.mxid] = t.ins.pid
        /\ wechat_listen_port = MsgHookPort + 2

\* C7: Disconnect(O) of an unregistered owner fails: its reply is an Error and
\* both indexes stay as they were; Disconnect(O) of a registered owner removes
\* O's mxid_pid_map entry and the pid_instance_map entry of O's pid.
C7_Disconnect ==
    (Completes /\ last'.command = "disconnect") =>
        IF last'.mxid \in DOMAIN mxid_pid_map
        THEN /\ last'.ok
             /\ last'.replies[1].command = "response"
             /\ mxid_pid_map' = Del(mxid_pid_map, last'.mxid)
             /\ pid_instance_map' = Del(pid_instance_map, mxid_pid_map[last'.mxid])
             /\ last'.mxid \notin DOMAIN mxid_pid_map'
             /\ mxid_pid_map[last'.mxid] \notin DOMAIN pid_instance_map'
        ELSE /\ ~last'.ok
             /\ last'.err = ErrDropNoPid
             /\ Len(last'.replies) = 1
             /\ last'.replies[1].command = "error"
             /\ mxid_pid_map' = mxid_pid_map
             /\ pid_instance_map' = pid_instance_map
C7_DisconnectDropsOrFails == [][C7_Disconnect]_vars

\* a Disconnect of an unregistered owner failed while another owner is registered
C7_Witness ==
    /\ last.command = "disconnect"
    /\ ~last.ok
    /\ last.replies[1].command = "error"
    /\ mxid_pid_map # EmptyMap

\* C8: IsLogin of a registered owner replies Response: when the login-status
\* query fails the reply is a Response with status false, not an Error; only an
\* unregistered owner makes IsLogin reply Error.
C8_Replies ==
    last.command = "is_login" =>
        /\ last.res # "" =>
              /\ last.ok
              /\ Len(last.replies) = 1
              /\ last.replies[1].command = "response"
              /\ last.replies[1].data =
                     (IF last.res = "true" THEN "status:true" ELSE "status:false")
        /\ last.res = "" =>
              /\ ~last.ok
              /\ last.err \in {ErrNoPidForMxid, ErrNoInstanceForPid}
C8_Registered ==
    /\ (Completes /\ last'.command = "is_login" /\ ~last'.ok) =>
          ~get_instance_by_mxid(pid_instance_map, mxid_pid_map, last'.mxid).ok
    /\ \A t \in inflight' \ inflight :
          t.command = "is_login" =>
              get_instance_by_mxid(pid_instance_map, mxid_pid_map, t.mxid) = Ok(t.ins)
C8_IsLoginRepliesResponse == [] C8_Replies /\ [][C8_Registered]_vars

\* the login-status query failed and the reply is Response with status false
C8_Witness ==
    /\ last.command = "is_login"
    /\ last.res = "fail"
    /\ last.replies[1].command = "response"
    /\ last.replies[1].data = "status:false"

\* the POST of a plain-text send and of an at-send
IsTextSend(call) == call = ApiCall(WECHAT_MSG_SEND_TEXT, Target, Content, <<>>, NoPath)
IsAtSend(call) ==
    /\ call.type = WECHAT_MSG_SEND_AT
    /\ call.to = Target
    /\ call.msg = Content
    /\ call.path = NoPath

\* C9: send_message of a Text with no data or an empty mention list makes exactly
\* one plain-text POST and no at-send; with a non-empty mention list it makes
\* exactly one at-send POST whose id list reads back as exactly the listed ids,
\* and no plain-text POST.
C9_TextSends ==
    (sm.msg.message_type = "Text" /\ sm.msg.payload.tag \in {"None", "Mentions"}) =>
        /\ sm.files = <<>>
        /\ Len(sm.calls) <= 1
        /\ sm.pc = "done" => Len(sm.calls) = 1 /\ sm.result \in {"ok", ErrUpstream}
        /\ \A i \in DOMAIN sm.calls :
              IF sm.msg.payload.mentions = <<>>
              THEN IsTextSend(sm.calls[i]) /\ ~IsAtSend(sm.calls[i])
              ELSE /\ IsAtSend(sm.calls[i])
                   /\ ~IsTextSend(sm.calls[i])
                   /\ split(sm.calls[i].wxids) = sm.msg.payload.mentions

\* an at-send to two ids was made
C9_Witness ==
    /\ sm.pc = "done"
    /\ sm.result = "ok"
    /\ sm.msg.message_type = "Text"
    /\ Len(sm.msg.payload.mentions) = 2
    /\ sm.msg.payload.mentions[1] # sm.msg.payload.mentions[2]
    /\ Len(sm.calls) = 1

\* the POST of an image-send (of a file-send for a File) of the file at path
MediaSend(message_type, path) ==
    ApiCall(IF message_type = "File" THEN WECHAT_MSG_SEND_FILE ELSE WECHAT_MSG_SEND_IMAGE,
            Target, "", <<>>, path)

SendMessageReply ==
    LET msg == Msg(1, "@a:hs", "send_message",
                   MessageData(sm.msg.message_type, sm.msg.payload))
    IN handle_matrix_events(msg,
                            IF sm.result = "ok"
                            THEN Done(write_command_resp(msg.mxid, msg.req, "payload", 1))
                            ELSE Fail(sm.result),
                            1)

\* a failed call: no POST, no file, the mismatch error, and an Error reply
FailsAsMismatch ==
    /\ sm.calls = <<>>
    /\ sm.files = <<>>
    /\ sm.pc \in {"start", "done"}
    /\ sm.pc = "done" =>
          /\ sm.result = ErrMismatch
          /\ Len(SendMessageReply) = 1
          /\ SendMessageReply[1].command = "error"
          /\ SendMessageReply[1].data = ErrMismatch

RECURSIVE streak(_)
streak(ends) ==
    IF ends = <<>> THEN 0
    ELSE IF Len(ends) = 1 THEN 1
    ELSE IF ends[Len(ends)] - ends[Len(ends) - 1] < Window
         THEN streak(SubSeq(ends, 1, Len(ends) - 1)) + 1
         ELSE 1

\* C12: after each end of the connection err_cnt is the previous err_cnt + 1 when
\* the previous end was less than 5 minutes earlier and 1 otherwise, and the sleep
\* before the next handshake lasts `wait` times that counter; a handshake is only
\* attempted after that sleep.
C12_Counter ==
    /\ ws.err_cnt = streak(ws.ends)
    /\ ws.pc = "sleep" => ws.wait = Wait * streak(ws.ends)
    /\ ws.ends = <<0, 1, 2>> => ws.wait = 3 * Wait
C12_HandshakeAfterWait ==
    ws'.handshakes # ws.handshakes =>
        /\ ws.pc = "sleep"
        /\ ws.wait = Wait * ws.err_cnt
        /\ ws'.handshakes = ws.handshakes + 1
C12_BackoffFollowsWindow == [] C12_Counter /\ [][C12_HandshakeAfterWait]_vars

\* ends at minutes 0, 1 and 2 made the third sleep 3 units long, and an end at
\* least 5 minutes later made the sleep 1 unit long
C12_Witness ==
    /\ ws.ends = <<0, 1, 2, 7>>
    /\ ws.pc = "sleep"
    /\ ws.wait = Wait

\* C13: once err_cnt exceeds MAX_WS_RECONNECT_COUNT the task has returned, which
\* ends the process, and no handshake is attempted any more; while err_cnt does
\* not exceed it, every end of the connection is followed by the sleep and then
\* by another handshake attempt.
C13_GaveUp ==
    /\ ws.pc = "returned" => ws.err_cnt > MAX_WS_RECONNECT_COUNT /\ ~ws.alive
    /\ ws.err_cnt > MAX_WS_RECONNECT_COUNT => ws.pc = "returned"
C13_Step ==
    /\ ws.pc = "returned" =>
          /\ ws'.pc = "returned"
          /\ ws'.handshakes = ws.handshakes
          /\ ~ws'.alive
    /\ (Len(ws'.ends) > Len(ws.ends) /\ ws'.err_cnt <= MAX_WS_RECONNECT_COUNT) =>
          /\ ws'.pc = "sleep"
          /\ ws'.alive
C13_GivesUpAfterMax ==
    /\ [] C13_GaveUp
    /\ [][C13_Step]_vars
    /\ \A n \in 1..(MaxEnds + 1) :
          (ws.pc = "sleep" /\ ws.handshakes = n)
              ~> (ws.pc = "handshake" /\ ws.handshakes = n + 1)

\* the sixth end of the connection within the window made the task return
C13_Witness ==
    /\ ws.pc = "returned"
    /\ ws.err_cnt = MAX_WS_RECONNECT_COUNT + 1
    /\ ws.handshakes = MAX_WS_RECONNECT_COUNT + 1

\* C14: once the connection has been lost and the loop reconnects, the process
\* ends only when err_cnt has exceeded MAX_WS_RECONNECT_COUNT: a handshake that
\* fails is followed by the sleep and another attempt.
C14_HandshakeFailureRecovered ==
    (~ws.alive /\ ws.ends # <<>>) => ws.err_cnt > MAX_WS_RECONNECT_COUNT

\* connection c has had a write fail as severed
SeveredWrite(c) ==
    /\ c \in DOMAIN ch.written
    /\ \E i \in DOMAIN ch.written[c] : ch.written[c][i].res = "severed"

\* the connections a message is written to in this step
WrittenTo ==
    {c \in DOMAIN ch.written' : c \in DOMAIN ch.written /\ ch.written'[c] # ch.written[c]}

\* C15 (first half): once a writer.send on a connection has failed as severed
\* (ConnectionClosed, AlreadyClosed, Io), nothing is written to that connection
\* any more.
C15_Same == \A c \in WrittenTo : ~SeveredWrite(c)
C15_NoWriteOnSevered == [][C15_Same]_vars

\* a write on connection 1 failed as severed and a message was then sent on 2
C15_Witness ==
    /\ SeveredWrite(1)
    /\ 2 \in DOMAIN ch.written
    /\ \E i \in DOMAIN ch.written[2] : ch.written[2][i].res = "ok"

\* C15: once a writer.send on a connection has failed as severed, nothing is
\* written to that connection any more, and every message transmitted after the
\* failure goes out on a connection of a later successful handshake.
C15_Later ==
    \A c \in WrittenTo :
        /\ ~SeveredWrite(c)
        /\ ch.written'[c][Len(ch.written'[c])].res = "ok" =>
              \A d \in DOMAIN ch.written : SeveredWrite(d) => c > d
C15_NoWriteUntilReconnected == [][C15_Later]_vars

\* message m went out on a socket; the writes of it that returned Ok
Transmissions(m) ==
    {w \in {<<c, i>> : c \in DOMAIN ch.written, i \in 1..ch.accepted} :
        /\ w[2] \in DOMAIN ch.written[w[1]]
        /\ ch.written[w[1]][w[2]] = [msg |-> m, res |-> "ok"]}

\* message m is retained by the channel for a Receiver that has not read it yet
Pending(m) ==
    \E k \in DOMAIN ch.queue :
        /\ ch.queue[k] = m
        /\ k >= oldest(ch.queue)
        /\ \E c \in DOMAIN ch.rxs : ch.rxs[c].next <= k

\* C16: every message write_to_ws accepted has been transmitted or is still
\* queued for a connection to come, whenever it was sent and however many are
\* queued; none is transmitted twice; each connection carries them in the order
\* they were sent.
C16_QueuedSendsSurvive ==
    /\ \A m \in 1..ch.accepted : Transmissions(m) # {} \/ Pending(m)
    /\ \A m \in 1..ch.accepted : Cardinality(Transmissions(m)) <= 1
    /\ \A c \in DOMAIN ch.written :
          \A i, j \in DOMAIN ch.written[c] :
              i < j => ch.written[c][i].msg < ch.written[c][j].msg

\* the line read in this step came over connection c
ReadsLine(c) == cb'.lines # cb.lines /\ cb'.last.conn = c

\* the step is handle_wechat_callback returning an Err on connection c
HandlingFails(c) == ReadsLine(c) /\ cb'.last.kind = "handled" /\ ~cb'.last.res.ok

\* C17: a line that does not decode leaves its connection open and its err_cnt as
\* it was; a connection that has had such lines stops only when its stream ends
\* or a handling failure tears it down, and while it is open every well-formed
\* line is decoded and handed to handle_wechat_callback.
C17_Skipped ==
    [][\A c \in CbConnIds :
          (ReadsLine(c) /\ cb'.last.kind = "undecodable") =>
              /\ cb'.conns[c].state = "open"
              /\ cb'.conns[c].err_cnt = cb.conns[c].err_cnt
              /\ cb'.conns[c].bad = cb.conns[c].bad + 1]_vars

C17_OnlyHandlingStops ==
    [][\A c \in CbConnIds :
          (cb.conns[c].bad > 0 /\ cb.conns[c].state = "open"
             /\ cb'.conns[c].state # "open") =>
              \/ cb'.conns[c].state = "ended"
              \/ HandlingFails(c) /\ cb'.conns[c].state = "bailed"]_vars

C17_LaterLinesHandled ==
    \A c \in CbConnIds :
        (cb.pc = "accepting" /\ cb.conns[c].bad > 0 /\ cb.conns[c].state = "open"
           /\ cb.lines < MaxLines) =>
            \A msg \in WechatMessages : ENABLED HandleLine(c, msg, TRUE)

C17_UndecodableLineSkipped ==
    []C17_LaterLinesHandled /\ C17_Skipped /\ C17_OnlyHandlingStops

C17_Witness ==
    \E c \in CbConnIds :
        /\ cb.conns[c].bad > 0
        /\ cb.conns[c].state = "open"
        /\ cb.last = CbLast(c, "handled", cb.last.res)
        /\ cb.last.res.ok
        /\ Len(cb.last.res.events) = 1

C18_CountsHandlingFailures ==
    [][\A c \in CbConnIds :
          /\ cb'.conns[c].err_cnt =
                 IF HandlingFails(c) THEN cb.conns[c].err_cnt + 1 ELSE cb.conns[c].err_cnt
          /\ cb.conns[c].state = "bailed" =>
                 (cb'.conns[c] = cb.conns[c] /\ ~ReadsLine(c))]_vars

C18_TornDownOverBudget ==
    \A c \in CbConnIds :
        /\ cb.conns[c].state = "bailed" <=>
               cb.conns[c].err_cnt > MAX_WECHAT_CALLBACK_FAIL_COUNT
        /\ cb.conns[c].err_cnt <= MAX_WECHAT_CALLBACK_FAIL_COUNT + 1

Faulted(c) ==
    cb.conns[c].bad > 0 \/ cb.conns[c].err_cnt > 0 \/ cb.conns[c].state = "bailed"

\* C19: a step of one connection (a line read, a failure counted, its teardown or
\* its end) leaves every other connection and the accept loop as they were; and
\* with a faulted connection around, the listener still accepts and every other
\* open connection still has its lines handled.
C19_StepsAreLocal ==
    [][\A c \in CbConnIds :
          (ReadsLine(c) \/ cb'.conns[c] # cb.conns[c]) =>
              /\ cb'.pc = cb.pc
              /\ \A k \in CbConnIds \ {c} : cb'.conns[k] = cb.conns[k]]_vars

C19_OthersGoOn ==
    \A c \in CbConnIds :
        (Faulted(c) /\ cb.pc = "accepting") =>
            /\ Cardinality(Accepted) < Cardinality(CbConnIds) => ENABLED Accept
            /\ \A k \in OpenConns \ {c} :
                  cb.lines < MaxLines =>
                      \A msg \in WechatMessages : ENABLED HandleLine(k, msg, TRUE)

C19_ConnectionsIsolated == []C19_OthersGoOn /\ C19_StepsAreLocal

C19_Witness ==
    \E c, k \in CbConnIds :
        /\ c # k
        /\ cb.conns[c].state = "bailed"
        /\ cb.conns[k].state = "open"
        /\ cb.last = CbLast(k, "handled", cb.last.res)
        /\ Len(cb.last.res.events) = 1

\* the lines of the registered session whose body the arm of their kind parses and
\* cannot parse: empty, or not the XML the arm reads
MalformedLines ==
    {msg \in WechatMessages :
        /\ msg.pid = RegisteredPid
        /\ msg.xml \in {"empty", "malformed"}
        /\ msg.msg_type \in {"Text", "Voice", "Sticker", "Location", "App",
                             "PrivateVoIP", "Hint", "System"}
        /\ msg.is_send_by_phone = "None"
        /\ msg.is_send_message = 0
        /\ msg.sender = WechatId}

\* C20: every line with a malformed body is handled with success, leaves one event
\* for the bridge, and its connection stays open to the lines after it.
C20_MalformedRecovered ==
    [][\A c \in CbConnIds, msg \in MalformedLines :
          HandleLine(c, msg, TRUE) =>
              /\ cb'.last.res.ok
              /\ Len(cb'.last.res.events) = 1
              /\ cb'.conns[c].state = "open"]_vars

\* handle_wechat_callback has returned for a line of the registered session that
\* the pre-filter let through
Translated ==
    tr.pc = "done" /\ tr.msg.pid = RegisteredPid /\ tr.msg.is_send_by_phone # "0"

Dropped == tr.res.ok /\ tr.res.events = <<>>
Emitted == tr.res.ok /\ Len(tr.res.events) = 1
Event == tr.res.events[1]

\* C21 as stated: a System line from "weixin" or sent by the account is dropped,
\* every other System line is emitted with kind System.
C21_SystemDroppedOrSystem ==
    (Translated /\ tr.msg.msg_type = "System") =>
        IF tr.msg.sender = "weixin" \/ tr.msg.is_send_message = 1
        THEN Dropped
        ELSE Emitted /\ Event.event_type = "System"

\* C21: a System line from "weixin" or sent by the account is dropped with
\* success; every other System line is emitted: with kind System and the content
\* parse_system_message gives when its body is not empty, and with kind Text and
\* the system placeholder when its body is empty.
C21_SystemDroppedOrEmitted ==
    (Translated /\ tr.msg.msg_type = "System") =>
        IF tr.msg.sender = "weixin" \/ tr.msg.is_send_message = 1
        THEN Dropped
        ELSE /\ Emitted
             /\ Event.extra = "None"
             /\ IF tr.msg.xml = "empty"
                THEN Event.event_type = "Text" /\ Event.content = PlaceholderSystem
                ELSE /\ Event.event_type = "System"
                     /\ Event.content =
                            IF tr.msg.xml = "ok" /\ tr.msg.sub = "other"
                            THEN "msg.message" ELSE ""

C21_Witness ==
    /\ Translated
    /\ tr.msg.msg_type = "System"
    /\ tr.msg.sender = "room@chatroom"
    /\ tr.msg.is_send_message = 0
    /\ Emitted
    /\ Event.event_type = "System"

\* no candidate name of the image exists in any probe round
NoImageFile ==
    \A r \in 1..OpenRetry : tr.files[r] \cap {"base", "png", "gif", "jpg"} = {}

\* C22: an Image line whose file opens under none of its four names in the three
\* probe rounds is handled with success and emits a Text event with the image
\* placeholder and no payload; when a name opens in one of the rounds the event
\* is an Image with the blob.
C22_ImagePlaceholder ==
    (Translated /\ tr.msg.msg_type = "Image") =>
        /\ Emitted
        /\ IF NoImageFile
           THEN /\ Event.event_type = "Text"
                /\ Event.content = PlaceholderImage
                /\ Event.extra = "None"
           ELSE Event.event_type = "Image" /\ Event.extra = "Blob"

C22_Witness ==
    /\ Translated
    /\ tr.msg.msg_type = "Image"
    /\ NoImageFile
    /\ Emitted
    /\ Event.content = PlaceholderImage

\* C27: a line of the registered session is handled with success and leaves
\* exactly one event, or none when it is a phone duplicate that is not a Hint, a
\* System line of the account or of "weixin", or a LastMessage.
C27_OneEventOrDropped ==
    (tr.pc = "done" /\ tr.msg.pid = RegisteredPid) =>
        IF \/ tr.msg.is_send_by_phone = "0" /\ tr.msg.msg_type # "Hint"
           \/ tr.msg.msg_type = "System"
                /\ (tr.msg.sender = "weixin" \/ tr.msg.is_send_message = 1)
           \/ tr.msg.msg_type = "LastMessage"
        THEN Dropped
        ELSE Emitted

\* the result for the same line with another phone flag
WithPhone(flag) ==
    handle_wechat_callback(pid_instance_map,
                           [tr.msg EXCEPT !.is_send_by_phone = flag],
                           fetches(tr.msg, tr.files))

\* C28: a line with the phone flag 0 that is not a Hint is dropped with success,
\* whatever its pid; a Hint with the flag 0 is translated as it is without the
\* flag, into a Revoke event; a line whose flag is absent or not 0 gets the
\* result it gets with any other such flag.
C28_PreFilter ==
    tr.pc = "done" =>
        /\ (tr.msg.is_send_by_phone = "0" /\ tr.msg.msg_type # "Hint") => Dropped
        /\ (tr.msg.is_send_by_phone = "0" /\ tr.msg.msg_type = "Hint") =>
              /\ tr.res = WithPhone("None")
              /\ (tr.msg.pid = RegisteredPid /\ tr.msg.xml = "ok") =>
                     (Emitted /\ Event.event_type = "Revoke")
        /\ tr.msg.is_send_by_phone # "0" =>
              /\ tr.res = WithPhone("None")
              /\ tr.res = WithPhone("1")
              /\ (tr.msg.pid = RegisteredPid /\ tr.msg.msg_type = "Text"
                    /\ tr.msg.xml = "ok") => Emitted

C28_Witness ==
    /\ tr.pc = "done"
    /\ tr.msg.is_send_by_phone = "0"
    /\ tr.msg.msg_type = "Hint"
    /\ Emitted
    /\ Event.event_type = "Revoke"

C28_WitnessDropped ==
    /\ tr.pc = "done"
    /\ tr.msg.is_send_by_phone = "0"
    /\ tr.msg.msg_type = "Text"
    /\ Dropped

\* C29: an emitted event of a line the account sent has the own id as sender and
\* msg.sender as target; of a line it received, the contact as sender and as
\* target the own id, or msg.sender when that ends in "@chatroom".
C29_SenderTarget ==
    (tr.pc = "done" /\ Emitted) =>
        IF tr.msg.is_send_message = 1
        THEN Event.sender = SelfId /\ Event.target = tr.msg.sender
        ELSE /\ Event.sender = WechatId
             /\ Event.target =
                    IF tr.msg.sender = "room@chatroom" THEN "room@chatroom" ELSE SelfId

C29_Witness ==
    /\ tr.pc = "done"
    /\ Emitted
    /\ tr.msg.is_send_message = 0
    /\ tr.msg.sender = "room@chatroom"
    /\ Event.sender = WechatId
    /\ Event.target = "room@chatroom"

\* C30: a Text line whose extra_info is empty or is not the mention XML is handled
\* with success and emits a Text event without mentions.
C30_TextWithoutMentions ==
    (Translated /\ tr.msg.msg_type = "Text" /\ tr.msg.xml \in {"empty", "malformed"}) =>
        /\ Emitted
        /\ Event.event_type = "Text"
        /\ Event.extra = "None"

\* the positions of the queue that hold events of connection c
QueueOf(c) == {i \in 1..Len(pl.queue) : pl.queue[i][1] = c}

\* C23: the events of one connection are handed to write_to_ws in the order of
\* their lines: a line is in the handler alone, no later line of its connection
\* is read or queued before it has left the handler, however many probe rounds
\* its fetch sleeps; and a connection busy with a line leaves every other
\* connection free to read its next line and to emit the line it handles.
C23_Ordered ==
    \A c \in PlConns :
        /\ \A i, j \in QueueOf(c) : i < j => pl.queue[i][2] < pl.queue[j][2]
        /\ Cardinality(DOMAIN pl.conns[c].cur) <= 1
        /\ \A k \in DOMAIN pl.conns[c].cur :
              /\ k = pl.conns[c].read
              /\ \A i \in QueueOf(c) : pl.queue[i][2] < k
              /\ ~ENABLED PlReadLine(c)

C23_OthersNotDelayed ==
    \A c, d \in PlConns :
        (c # d /\ pl.conns[c].cur # Idle) =>
            /\ (pl.conns[d].open /\ pl.conns[d].cur = Idle
                  /\ pl.conns[d].read < MaxPlFrames) => ENABLED PlReadLine(d)
            /\ \A k \in DOMAIN pl.conns[d].cur : ENABLED PlEmits(d, k)

C23_ArrivalOrder == C23_Ordered /\ C23_OthersNotDelayed

\* the fetch of the first line of a connection slept, an event of the other
\* connection went out meanwhile, and the second line still follows the first
C23_Witness ==
    \E c, d \in PlConns :
        /\ c # d
        /\ Len(pl.queue) = 3
        /\ pl.queue[1][1] = d
        /\ pl.queue[2] = <<c, 1, TRUE>>
        /\ pl.queue[3] = <<c, 2, FALSE>>

\* the write_message tasks that hold a Receiver of the channel
Dequeuers == {c \in DOMAIN ch.rxs : ch.rxs[c].writer}

\* C24: at every moment at most one write_message task receives from the channel;
\* once a later connection is established, the task of an earlier one is gone.
C24_SingleDequeuer ==
    /\ Cardinality(Dequeuers) <= 1
    /\ \A c \in Dequeuers : ch.pc = "connected" => c = ch.cur

\* C25: a handler that has started leaves the set of running handlers only by
\* running to its end, where its reply is written.
C25_NoCancellation ==
    [][\A t \in inflight : t \in inflight' \/ last'.req = t.req]_vars

\* the frame received in this step: the handler it started, or the command it
\* completed at once
Started == inflight' \ inflight
CompletedAtOnce == nframes' # nframes /\ last'.req = nframes'

\* the command reaches its get_instance_by_mxid (its data has the shape of its arm)
LooksUp(m) ==
    /\ m.command \in CallCommands
    /\ m.command \in QueryCommands => m.data.tag = "Query"
    /\ m.command = "send_message" => m.data.tag = "Message"

NotFoundReply ==
    /\ ~last'.ok
    /\ last'.err = ErrNoPidForMxid
    /\ Len(last'.replies) = 1
    /\ last'.replies[1].command = "error"

\* a Disconnect of a registered owner is taken whatever is in flight, replies
\* Response, removes the owner and leaves the handlers in flight alone
C26_DisconnectProceeds ==
    (CompletedAtOnce /\ last'.command = "disconnect"
        /\ last'.mxid \in DOMAIN mxid_pid_map) =>
        /\ last'.ok
        /\ last'.replies[1].command = "response"
        /\ last'.mxid \notin DOMAIN mxid_pid_map'
        /\ inflight' = inflight

C26_DisconnectEnabled ==
    \A mxid \in Owners : CanReceive => ENABLED Disconnect(mxid)

\* the registry holds what the handler that wrote it last has put there
C26_LastWriteWins ==
    \A t \in inflight \ inflight' :
        (t.command = "connect" /\ last'.req = t.req /\ last'.ok) =>
            /\ get_instance_by_mxid(pid_instance_map', mxid_pid_map', t.mxid) = Ok(t.ins)
            /\ get_instance_by_pid(pid_instance_map', t.ins.pid) = Ok(t.ins)

\* C26 as stated, for the lookups after the removal: right after Disconnect(O) has
\* replied Response, every command for O that looks O up, Connect included,
\* fails with the lookup's error and replies Error.
C26_AfterRemoval ==
    (last.command = "disconnect" /\ last.ok /\ nframes' # nframes) =>
        /\ \A t \in Started : t.mxid # last.mxid
        /\ (CompletedAtOnce /\ last'.mxid = last.mxid
              /\ (LooksUp(last') \/ last'.command = "connect")) => NotFoundReply

C26_EveryLookupFails == [][C26_AfterRemoval]_vars

\* C26: Disconnect(O) of a registered owner proceeds and replies Response whatever
\* is in flight; the registry holds what was written last; a command other than
\* Connect that looks up an owner who is not (or no longer) registered starts no
\* call, fails with the lookup's error and replies Error, while a Connect for
\* such an owner launches a new session instead.
C26_LookupsOfAbsentOwner ==
    /\ \A t \in Started :
          IF t.command = "connect"
          THEN t.mxid \notin DOMAIN mxid_pid_map =>
                   (t.pc = "hook" /\ t.ins.pid = next_pid /\ next_pid' = next_pid + 1)
          ELSE /\ t.mxid \in DOMAIN mxid_pid_map
               /\ t.ins = pid_instance_map[mxid_pid_map[t.mxid]]
    /\ (CompletedAtOnce /\ last'.mxid \notin DOMAIN mxid_pid_map) =>
          /\ LooksUp(last') => NotFoundReply
          /\ last'.command = "connect" =>
                 (last'.err \in {ErrLoadLibrary, ErrStartListen}
                    /\ wechat_listen_port' = wechat_listen_port + 1)

C26_DisconnectInFlight ==
    /\ []C26_DisconnectEnabled
    /\ [][C26_DisconnectProceeds /\ C26_LastWriteWins /\ C26_LookupsOfAbsentOwner]_vars

\* Disconnect(O) has replied Response while a command for O is in flight
C26_Witness ==
    /\ last.command = "disconnect"
    /\ last.ok
    /\ last.replies[1].command = "response"
    /\ \E t \in inflight : t.mxid = last.mxid /\ t.req < last.req

\* a command for O fails its lookup after Disconnect(O) has removed O
C26_WitnessLookup ==
    /\ last.command \in CallCommands
    /\ last.err = ErrNoPidForMxid
    /\ last.mxid \notin DOMAIN mxid_pid_map
    /\ last.mxid = "@a:hs"
    /\ next_pid = RegisteredPid + 1

\* ------------------------------------------------------------ C31
\* the arms that read one local file with fetch_voice, fetch_video or fetch_file
MediaKind ==
    CASE tr.msg.msg_type = "Voice" -> "Audio"
      [] tr.msg.msg_type = "Video" -> "Video"
      [] OTHER -> "File"

OneFileArm ==
    \/ tr.msg.msg_type = "Voice" /\ tr.msg.xml = "ok"
    \/ tr.msg.msg_type = "Video"
    \/ tr.msg.msg_type = "App" /\ tr.msg.xml = "ok" /\ tr.msg.sub = "File"

\* the file is there in one of the probe rounds
AppearsInTime == \E r \in 1..OpenRetry : "base" \in tr.files[r]

\* C31: a Voice, Video or File line whose file is there in one of the probe
\* rounds, the first or a later one, is emitted with the blob and its media kind;
\* the placeholder is emitted only when the file is in none of the rounds.
C31_LateFileFetched ==
    (Translated /\ OneFileArm) =>
        /\ Emitted
        /\ IF AppearsInTime
           THEN Event.event_type = MediaKind /\ Event.extra = "Blob"
           ELSE Event.event_type = "Text" /\ Event.extra = "None"

\* ------------------------------------------------------------ C32
\* an App line whose XML is a Reply with its refermsg
ReplyLine ==
    /\ tr.msg.msg_type = "App"
    /\ tr.msg.xml = "ok"
    /\ tr.msg.sub \in {"ReplyChatSender", "ReplyUserSender", "ReplyBothSenders",
                       "ReplyNoSender"}

\* C32: a Reply line with one of its two sender fields is emitted as a Text
\* event with the title as content and a reply reference that holds the id of
\* the referenced message and the conversation-level sender when it is there,
\* else the user-level sender; with both senders absent the handling fails and
\* nothing is emitted.
C32_ReplyReference ==
    (Translated /\ ReplyLine) =>
        IF tr.msg.sub = "ReplyNoSender"
        THEN ~tr.res.ok /\ tr.res.events = <<>> /\ tr.res.err = ErrNoSender
        ELSE /\ Emitted
             /\ Event.event_type = "Text"
             /\ Event.content = "appmsg.title"
             /\ Event.reply.id = "refermsg.svrid"
             /\ Event.reply.sender =
                    IF tr.msg.sub = "ReplyUserSender" THEN "fromusr" ELSE "chatusr"

\* C32: no other line carries a reply reference.
C32_OnlyRepliesRefer ==
    (Translated /\ Emitted /\ ~ReplyLine) => Event.reply = NoReply

C32_ReplyRule == C32_ReplyReference /\ C32_OnlyRepliesRefer

C32_Witness ==
    /\ Translated
    /\ tr.msg.msg_type = "App"
    /\ tr.msg.xml = "ok"
    /\ tr.msg.sub = "ReplyBothSenders"
    /\ Emitted
    /\ Event.reply = ReplyInfo("refermsg.svrid", "chatusr")

C32_WitnessNoSender ==
    /\ Translated
    /\ tr.msg.msg_type = "App"
    /\ tr.msg.sub = "ReplyNoSender"
    /\ tr.msg.xml = "ok"
    /\ ~tr.res.ok

\* ------------------------------------------------------------ C33
\* the sessions there are: the stored ones and those a Connect is still hooking
Sessions ==
    {pid_instance_map[pid] : pid \in DOMAIN pid_instance_map}
        \cup {t.ins : t \in {x \in inflight : x.pc = "hook"}}

\* a Connect that launched a new session in this step
Launched == {t \in inflight' \ inflight : t.pc = "hook" /\ t.ins \notin Sessions}

\* C33: the control ports of the sessions are pairwise distinct, greater than
\* the callback port and below the counter, whatever the interleaving of the
\* Connects.
C33_PortsDistinct ==
    /\ wechat_listen_port > MsgHookPort
    /\ \A a \in Sessions : MsgHookPort < a.port /\ a.port < wechat_listen_port
    /\ \A a, b \in Sessions : a.pid # b.pid => a.port # b.port

\* C33: the counter never goes back, not on a Disconnect and not on a failed
\* launch; a new session gets the value of the counter, which is above every port
\* handed out before, and the counter moves past it in the same step.
C33_PortsIncrease ==
    /\ wechat_listen_port' >= wechat_listen_port
    /\ \A t \in Launched :
          /\ t.ins.port = wechat_listen_port
          /\ wechat_listen_port' = wechat_listen_port + 1
          /\ \A a \in Sessions : a.port < t.ins.port
    /\ (Completes /\ last'.command = "connect" /\ last'.res = "" /\ ~last'.ok) =>
          wechat_listen_port' = wechat_listen_port + 1

C33_PortsNeverReused == [] C33_PortsDistinct /\ [][C33_PortsIncrease]_vars

\* two sessions of two Connects with their two ports
C33_Witness ==
    /\ \E a, b \in Sessions : a.pid # b.pid /\ a.port < b.port
    /\ wechat_listen_port >= MsgHookPort + 3

\* ------------------------------------------------------------ C34
\* the pids a client can have
Pids == 1..(RegisteredPid + MaxFrames)

\* the session of pid is in one of the two indexes
Indexed(pid) ==
    \/ pid \in DOMAIN pid_instance_map
    \/ \E mxid \in DOMAIN mxid_pid_map : mxid_pid_map[mxid] = pid

\* C34: a stored session whose process has stopped running is eventually out of
\* both indexes, also when no Disconnect for its owner ever arrives.
C34_ExitedDestroyed ==
    \A pid \in Pids : (pid \in exited /\ Indexed(pid)) ~> ~Indexed(pid)

\* ------------------------------------------------------------ C35
RECURSIVE Pow2(_)
Pow2(n) == IF n = 0 THEN 1 ELSE 2 * Pow2(n - 1)

OpReturned == op.pc = "returned"

\* C35: the call makes at most retry_time rounds; its File::open calls go through
\* the candidates in their order, round after round, and none but the last of
\* them opened; the delay is one second in the first round and doubles after
\* every failed round.
C35_RoundsAndDelays ==
    /\ op.round <= op.retry_time + 1
    /\ Len(op.slept) = op.round - 1
    /\ \A r \in 1..Len(op.slept) : op.slept[r] = Pow2(r - 1)
    /\ op.wait = Pow2(op.round - 1)
    /\ \A k \in 1..Len(op.probes) :
          /\ op.probes[k].name = op.filename_seq[((k - 1) % Len(op.filename_seq)) + 1]
          /\ k < Len(op.probes) => ~op.probes[k].opened
    /\ Len(op.probes) <= op.retry_time * Len(op.filename_seq)

\* C35: the call returns the first path that opened, in one of its retry_time
\* rounds, or an error after retry_time rounds in which no path opened.
C35_Result ==
    OpReturned =>
        IF op.res.ok
        THEN /\ op.round <= op.retry_time
             /\ op.probes # <<>>
             /\ op.probes[Len(op.probes)].opened
             /\ op.res.val = op.probes[Len(op.probes)].name
        ELSE /\ op.round = op.retry_time + 1
             /\ Len(op.probes) = op.retry_time * Len(op.filename_seq)
             /\ \A k \in 1..Len(op.probes) : ~op.probes[k].opened
             /\ op.res.err = ErrNoFile

\* C35: every call of the helper returns.
C35_Terminates == [] (C35_RoundsAndDelays /\ C35_Result) /\ <> OpReturned

\* a call that failed two rounds of four candidates and opened one in the third
C35_Witness ==
    /\ OpReturned
    /\ op.res.ok
    /\ op.filename_seq = ImageCandidates
    /\ op.round = 3
    /\ op.slept = <<1, 2>>

C35_WitnessFails ==
    /\ OpReturned
    /\ ~op.res.ok
    /\ op.retry_time = MaxRetry
    /\ op.filename_seq = ImageCandidates

\* ------------------------------------------------------------ C36
\* task a is at a lock() of a Mutex that task b holds
WaitsFor(a, b) ==
    /\ wants(lk.tasks[a]) # ""
    /\ lk.owner[wants(lk.tasks[a])] = b

SessionsOf(mxid) == {s \in Sessions : s.mxid = mxid}

\* C37: at no moment are there two launched sessions of one owner, also not
\* while two Connects of that owner are in flight, and every stored session is
\* the one its owner's entry of mxid_pid_map leads to.
C37_OneSessionPerOwner ==
    /\ \A mxid \in Owners : Cardinality({s.pid : s \in SessionsOf(mxid)}) <= 1
    /\ \A pid \in DOMAIN pid_instance_map :
          LET mxid == pid_instance_map[pid].mxid
          IN mxid \in DOMAIN mxid_pid_map /\ mxid_pid_map[mxid] = pid

\* ------------------------------------------------------------ C38
\* the reply the command that completed in this step ended with
RepliesWith(command) ==
    /\ Completes
    /\ last'.replies # <<>>
    /\ last'.replies[Len(last'.replies)].command = command

\* C38: a step changes pid_instance_map or mxid_pid_map only when a Connect or
\* a Disconnect completes in it with a Response; a command of any other kind, and
\* a command of any kind that ends with an Error reply, leaves both maps as
\* they are, and so does every step that completes no command.
C38_RegistryChanges ==
    /\ registry' # registry =>
          /\ last'.command \in {"connect", "disconnect"}
          /\ RepliesWith("response")
          /\ last'.ok
    /\ (Completes /\ last'.command \notin {"connect", "disconnect"}) =>
          UNCHANGED registry
    /\ RepliesWith("error") => UNCHANGED registry
    /\ ~Completes => UNCHANGED registry

C38_OnlyConnectDisconnect == [][C38_RegistryChanges]_vars

\* a Disconnect that replied Response and took the owner out
C38_Witness ==
    /\ last.command = "disconnect"
    /\ last.ok
    /\ last.replies # <<>>
    /\ last.replies[1].command = "response"
    /\ last.mxid \notin DOMAIN mxid_pid_map
    /\ pid_instance_map = EmptyMap

\* a Connect whose hooking failed: Error reply, nothing stored
C38_WitnessFailedConnect ==
    /\ last.command = "connect"
    /\ ~last.ok
    /\ last.res = "fail"
    /\ last.replies[1].command = "error"
    /\ pid_instance_map = EmptyMap

\* ------------------------------------------------------------ C39
\* the payload an event of a kind has to carry
PayloadOf(event_type) ==
    CASE event_type \in {"Image", "Audio", "Video", "File"} -> {"Blob"}
      [] event_type = "Location" -> {"Location"}
      [] event_type = "App" -> {"Link"}
      [] event_type \in {"Notice", "Revoke", "VoIP", "System"} -> {"None"}
      [] OTHER -> {"None", "Mentions"}

\* C39: every emitted event carries the payload of its kind: a blob for Image,
\* Audio, Video and File, a location for Location, a link for App, none for
\* Notice, Revoke, VoIP and System; an event whose content is a failure
\* placeholder is of kind Text and carries no payload.
C39_PayloadOfKind ==
    (tr.pc = "done" /\ Emitted) =>
        /\ Event.extra \in PayloadOf(Event.event_type)
        /\ Event.content \in Placeholders =>
              Event.event_type = "Text" /\ Event.extra = "None"

\* a sticker whose download failed: Text with the placeholder and no payload
C39_Witness ==
    /\ tr.pc = "done"
    /\ Emitted
    /\ tr.msg.msg_type = "Sticker"
    /\ Event.content = PlaceholderSticker
    /\ Event.event_type = "Text"
    /\ Event.extra = "None"

\* every kind is emitted
C39_WitnessLocation == tr.pc = "done" /\ Emitted /\ Event.event_type = "Location"
C39_WitnessApp == tr.pc = "done" /\ Emitted /\ Event.event_type = "App"
C39_WitnessFile == tr.pc = "done" /\ Emitted /\ Event.event_type = "File"
C39_WitnessAudio == tr.pc = "done" /\ Emitted /\ Event.event_type = "Audio"
C39_WitnessNotice == tr.pc = "done" /\ Emitted /\ Event.event_type = "Notice"

\* ------------------------------------------------------------ C40
\* the lines of a pid that is not in the registry and that pass the pre-filter
StrangeLines == {msg \in WechatMessages : msg.pid = StrangePid /\ ~is_duplicate(msg)}

\* C40: a step in which handle_wechat_callback fails emits no event, is the
\* first failure of its connection and tears the connection down at once; a
\* line that does not decode, or that the codec rejects, changes neither the
\* count nor the state.
C40_Failure ==
    \A c \in CbConnIds :
        /\ HandlingFails(c) =>
              /\ cb'.last.res.events = <<>>
              /\ cb.conns[c].err_cnt = 0
              /\ cb'.conns[c].err_cnt = MAX_WECHAT_CALLBACK_FAIL_COUNT + 1
              /\ cb'.conns[c].state = "bailed"
        /\ (ReadsLine(c) /\ cb'.last.kind # "handled") =>
              /\ cb'.conns[c].err_cnt = cb.conns[c].err_cnt
              /\ cb'.conns[c].state = cb.conns[c].state
              /\ cb'.last.res.events = <<>>

\* C40: a line of a pid that is not in the registry is a handling failure.
C40_UnknownPidFails ==
    \A msg \in StrangeLines, fetched \in BOOLEAN :
        handle_wechat_callback(pid_instance_map, msg, fetched) =
            HandleFails(ErrNoInstanceForPid)

C40_FirstFailureStops == [] C40_UnknownPidFails /\ [][C40_Failure]_vars

\* a connection torn down by a line of an unregistered pid, after a line that
\* did not decode and was not counted
C40_Witness ==
    \E c \in CbConnIds :
        /\ cb.last = CbLast(c, "handled", HandleFails(ErrNoInstanceForPid))
        /\ cb.conns[c].bad = 1
        /\ cb.conns[c].err_cnt = 1
        /\ cb.conns[c].state = "bailed"

====
